---------------------------- MODULE Spec2Model ----------------------------
(***************************************************************************)
(* Model of infra/aws_serverless_sweep/lambda/serverless_sweep.py: the     *)
(* request validator, the shard partitioner, the parent (coordinator)      *)
(* handler and the child (executor) handler with its outcome store.        *)
(*                                                                         *)
(* Conventions.  A JSON value that may be missing or of the wrong type is  *)
(* a record [k |-> kind, v |-> value]; kind "absent" is a missing key (or  *)
(* an explicit null where the code reads the key with .get and no          *)
(* default), kind "bad" is a value of a type the code rejects.  Strings    *)
(* that the code trims, sorts or embeds in keys are sequences of           *)
(* one-character strings.                                                  *)
(***************************************************************************)
EXTENDS Integers, Sequences, FiniteSets, TLC

VARIABLES
    env,          \* process environment: CHILD_LAMBDA_ARN, SWEEP_RESULTS_BUCKET, SWEEP_RESULTS_PREFIX
    today,        \* the UTC date read by datetime.now(UTC)
    parent,       \* the one invocation of parent_handler
    invocations,  \* the calls lambda_client.invoke has accepted, in order
    child,        \* the invocations of child_handler, one slot per event
    store,        \* the outcome store: key -> record
    sweep,        \* validator/partitioner applied to one payload (pure functions)
    evaluation    \* _deterministic_result's arithmetic applied to one 64-bit state

vars == <<env, today, parent, invocations, child, store, sweep, evaluation>>

---------------------------------------------------------------------------
(* Program constants *)

MAX_DIMENSION_VALUES == 10000
MAX_TOTAL_PARAMETER_POINTS == 200000
DEFAULT_MAX_SHARDS == 1000
DEFAULT_SEED == 0
DEFAULT_PREFIX == <<"o">>

---------------------------------------------------------------------------
(* Generic helpers *)

Min(a, b) == IF a <= b THEN a ELSE b

Range(s) == {s[i] : i \in 1..Len(s)}

Absent == [k |-> "absent", v |-> 0]
Bad == [k |-> "bad", v |-> 0]
\* the same for a field whose value is a string, a list or a dict
AbsentSeq == [k |-> "absent", v |-> <<>>]
BadSeq == [k |-> "bad", v |-> <<>>]
StrV(s) == [k |-> "str", v |-> s]
ListV(s) == [k |-> "list", v |-> s]
DictV(s) == [k |-> "dict", v |-> s]
IntV(n) == [k |-> "int", v |-> n]
\* an integer so large that total_points / shard_size underflows to 0.0
Huge == [k |-> "huge", v |-> 0]

\* isinstance(value, int)
IsInt(f) == f.k \in {"int", "huge"}

\* value <= 0 for an int field
NonPositive(f) == f.k = "int" /\ f.v <= 0

Chars == {" ", "/", "a", "b", "r", "s"}

CharRank(c) ==
    CASE c = " " -> 32
      [] c = "/" -> 47
      [] c = "a" -> 97
      [] c = "b" -> 98
      [] c = "r" -> 114
      [] c = "s" -> 115

\* str.strip(): drop leading and trailing whitespace
RECURSIVE LStrip(_)
LStrip(s) ==
    IF s = <<>> THEN <<>>
    ELSE IF Head(s) = " " THEN LStrip(Tail(s)) ELSE s

RECURSIVE RStrip(_)
RStrip(s) ==
    IF s = <<>> THEN <<>>
    ELSE IF s[Len(s)] = " " THEN RStrip(SubSeq(s, 1, Len(s) - 1)) ELSE s

Strip(s) == RStrip(LStrip(s))

\* str.strip("/")
RECURSIVE LStripSlash(_)
LStripSlash(s) ==
    IF s = <<>> THEN <<>>
    ELSE IF Head(s) = "/" THEN LStripSlash(Tail(s)) ELSE s

RECURSIVE RStripSlash(_)
RStripSlash(s) ==
    IF s = <<>> THEN <<>>
    ELSE IF s[Len(s)] = "/" THEN RStripSlash(SubSeq(s, 1, Len(s) - 1)) ELSE s

StripSlash(s) == RStripSlash(LStripSlash(s))

\* Python's ordering of str: lexicographic by code point
RECURSIVE StrLess(_, _)
StrLess(a, b) ==
    IF b = <<>> THEN FALSE
    ELSE IF a = <<>> THEN TRUE
    ELSE IF CharRank(Head(a)) < CharRank(Head(b)) THEN TRUE
    ELSE IF CharRank(Head(a)) > CharRank(Head(b)) THEN FALSE
    ELSE StrLess(Tail(a), Tail(b))

\* sorted(dimensions.keys())
RECURSIVE SortedNames(_)
SortedNames(S) ==
    IF S = {} THEN <<>>
    ELSE LET m == CHOOSE x \in S : \A y \in S \ {x} : StrLess(x, y)
         IN  <<m>> \o SortedNames(S \ {m})

\* sorted(set(xs)) for a list of ints
RECURSIVE SortedInts(_)
SortedInts(S) ==
    IF S = {} THEN <<>>
    ELSE LET m == CHOOSE x \in S : \A y \in S : x <= y
         IN  <<m>> \o SortedInts(S \ {m})

---------------------------------------------------------------------------
(* Errors and results *)

ValidationError(msg) == [type |-> "ValidationError", msg |-> msg]
RuntimeError(msg) == [type |-> "RuntimeError", msg |-> msg]
TypeError(msg) == [type |-> "TypeError", msg |-> msg]
NoError == [type |-> "none", msg |-> <<"", "">>]

NullRequest ==
    [run_id |-> <<>>, dimensions |-> <<>>, total_points |-> 0, max_shards |-> 0,
     seed |-> 0, failure_injection_shards |-> <<>>,
     shard_count |-> Absent, shard_size |-> Absent]

Raise(e) == [ok |-> FALSE, error |-> e, request |-> NullRequest]
Return(r) == [ok |-> TRUE, error |-> NoError, request |-> r]

---------------------------------------------------------------------------
(* _required *)

\* _required(payload, key, expected_type): the error it raises, or NoError.
\* `field` is payload[key] (kind "absent" when the key is not in payload).
Required(payloadKind, field, key, expected) ==
    IF payloadKind = "scalar"
    THEN TypeError(<<"argument is not iterable", key>>)         \* `key not in payload`
    ELSE IF payloadKind = "list" \/ field.k = "absent"
    THEN ValidationError(<<"Missing required field", key>>)
    ELSE IF field.k # expected
    THEN ValidationError(<<"Field must be of the expected type", key>>)
    ELSE NoError

---------------------------------------------------------------------------
(* validate_sweep_request *)

\* the loop over dimensions.items(): the first error, or NoError
RECURSIVE DimensionsError(_, _)
DimensionsError(dims, i) ==
    IF i > Len(dims) THEN NoError
    ELSE IF Strip(dims[i].name) = <<>>
    THEN ValidationError(<<"dimension names must be non-empty strings", "">>)
    ELSE IF dims[i].values.k # "list" \/ dims[i].values.v = <<>>
    THEN ValidationError(<<"Dimension must be a non-empty list", "">>)
    ELSE IF Len(dims[i].values.v) > MAX_DIMENSION_VALUES
    THEN ValidationError(<<"Dimension exceeds MAX_DIMENSION_VALUES", "">>)
    ELSE DimensionsError(dims, i + 1)

\* variant: the product is not held against the ceiling
RECURSIVE RunningProductUnchecked(_, _, _)
RunningProductUnchecked(dims, i, total_points) ==
    IF i > Len(dims) THEN total_points
    ELSE RunningProductUnchecked(dims, i + 1, total_points * Len(dims[i].values.v))

\* the running product of the dimension lengths; -1 once it exceeds the ceiling
RECURSIVE RunningProduct(_, _, _)
RunningProduct(dims, i, total_points) ==
    IF i > Len(dims) THEN total_points
    ELSE LET next == total_points * Len(dims[i].values.v)
         IN  IF next > MAX_TOTAL_PARAMETER_POINTS THEN -1
             ELSE RunningProduct(dims, i + 1, next)

\* {k: dimensions[k] for k in sorted(dimensions.keys())}
SortedDimensions(dims) ==
    LET names == SortedNames({dims[i].name : i \in 1..Len(dims)})
    IN  [j \in 1..Len(names) |->
            LET i == CHOOSE i \in 1..Len(dims) : dims[i].name = names[j]
            IN  [name |-> names[j], values |-> dims[i].values.v]]

\* variant: the list is passed on as it was given
NormalizedFailureShardsAsGiven(field) ==
    IF field.k = "absent" THEN <<>> ELSE field.v

\* sorted(set(failure_injection_shards)), line 145
NormalizedFailureShards(field) ==
    IF field.k = "absent" THEN <<>> ELSE SortedInts(Range(field.v))

validate_sweep_request(payload) ==
    LET e1 == Required(payload.kind, payload.run_id, "run_id", "str") IN
    IF e1 # NoError THEN Raise(e1) ELSE
    LET run_id == Strip(payload.run_id.v) IN
    IF run_id = <<>> THEN Raise(ValidationError(<<"run_id cannot be empty", "">>)) ELSE
    LET e2 == Required(payload.kind, payload.dimensions, "dimensions", "dict") IN
    IF e2 # NoError THEN Raise(e2) ELSE
    LET dimensions == payload.dimensions.v IN
    IF dimensions = <<>> THEN Raise(ValidationError(<<"dimensions cannot be empty", "">>)) ELSE
    LET e3 == DimensionsError(dimensions, 1) IN
    IF e3 # NoError THEN Raise(e3) ELSE
    LET shard_count == payload.shard_count
        shard_size == payload.shard_size IN
    IF shard_count.k = "absent" /\ shard_size.k = "absent"
    THEN Raise(ValidationError(<<"Either shard_count or shard_size is required", "">>)) ELSE
    IF shard_count.k # "absent" /\ (~IsInt(shard_count) \/ NonPositive(shard_count))
    THEN Raise(ValidationError(<<"shard_count must be a positive integer", "">>)) ELSE
    IF shard_size.k # "absent" /\ (~IsInt(shard_size) \/ NonPositive(shard_size))
    THEN Raise(ValidationError(<<"shard_size must be a positive integer", "">>)) ELSE
    LET max_shards == IF payload.max_shards.k = "absent"
                      THEN IntV(DEFAULT_MAX_SHARDS) ELSE payload.max_shards IN
    IF ~IsInt(max_shards) \/ NonPositive(max_shards)
    THEN Raise(ValidationError(<<"max_shards must be a positive integer", "">>)) ELSE
    LET seed == IF payload.seed.k = "absent" THEN IntV(DEFAULT_SEED) ELSE payload.seed IN
    IF ~IsInt(seed) THEN Raise(ValidationError(<<"seed must be an integer", "">>)) ELSE
    LET fis == payload.failure_injection_shards IN
    IF fis.k = "bad" \/ (fis.k = "list" /\ \E i \in 1..Len(fis.v) : fis.v[i] < 0)
    THEN Raise(ValidationError(<<"failure_injection_shards must be a list of non-negative integers", "">>)) ELSE
    LET total_points == RunningProduct(dimensions, 1, 1) IN
    IF total_points = -1
    THEN Raise(ValidationError(<<"Parameter space is too large for this demo deployment", "">>)) ELSE
    Return([run_id |-> run_id,
            dimensions |-> SortedDimensions(dimensions),
            total_points |-> total_points,
            max_shards |-> max_shards.v,
            seed |-> seed.v,
            failure_injection_shards |-> NormalizedFailureShards(fis),
            shard_count |-> shard_count,
            shard_size |-> shard_size])

---------------------------------------------------------------------------
(* compute_shard_bounds *)

\* variant: shard ids counted from 1
ShardBoundsOneBased(shard_id, start_index, end_index) ==
    [shard_id |-> shard_id + 1, start_index |-> start_index, end_index |-> end_index]

ShardBounds(shard_id, start_index, end_index) ==
    [shard_id |-> shard_id, start_index |-> start_index, end_index |-> end_index]

\* variant: floor instead of ceiling
FloorDiv(total_points, shard_size) ==
    IF shard_size.k = "huge" THEN 0
    ELSE total_points \div shard_size.v

\* math.ceil(total_points / shard_size): true division to a double, then ceil;
\* the quotient of a shard_size beyond the double range underflows to 0.0
CeilDiv(total_points, shard_size) ==
    IF shard_size.k = "huge" THEN 0
    ELSE (total_points + shard_size.v - 1) \div shard_size.v

\* variant: shard_count is not clamped to total_points
ResolveShardCountUnclamped(request) ==
    IF request.shard_count.k = "absent"
    THEN CeilDiv(request.total_points, request.shard_size)
    ELSE request.shard_count.v

ResolveShardCount(request) ==
    IF request.shard_count.k = "absent"
    THEN CeilDiv(request.total_points, request.shard_size)
    ELSE Min(request.shard_count.v, request.total_points)

\* variant: the extra points go to shards 1..remainder
CurrentSizeShifted(shard_id, base_size, remainder) ==
    base_size + (IF shard_id > 0 /\ shard_id <= remainder THEN 1 ELSE 0)

\* base_size + (1 if shard_id < remainder else 0)
CurrentSize(shard_id, base_size, remainder) ==
    base_size + (IF shard_id < remainder THEN 1 ELSE 0)

\* the loop `for shard_id in range(shard_count)` with its running cursor
RECURSIVE BuildBounds(_, _, _, _, _)
BuildBounds(shard_id, shard_count, base_size, remainder, cursor) ==
    IF shard_id >= shard_count THEN <<>>
    ELSE LET start == cursor
             end == cursor + CurrentSize(shard_id, base_size, remainder)
         IN  <<ShardBounds(shard_id, start, end)>>
                 \o BuildBounds(shard_id + 1, shard_count, base_size, remainder, end)

\* variant: the ceiling is off by one
ExceedsMaxShardsOffByOne(shard_count, max_shards) == shard_count > max_shards + 1

\* line 166: shard_count > request["max_shards"]
ExceedsMaxShards(shard_count, max_shards) == shard_count > max_shards

BoundsRaise(e) == [ok |-> FALSE, error |-> e, bounds |-> <<>>]
BoundsReturn(b) == [ok |-> TRUE, error |-> NoError, bounds |-> b]

compute_shard_bounds(request) ==
    LET total_points == request.total_points
        shard_count == ResolveShardCount(request) IN
    IF shard_count <= 0
    THEN BoundsRaise(ValidationError(<<"No shards to process", "">>)) ELSE
    IF ExceedsMaxShards(shard_count, request.max_shards)
    THEN BoundsRaise(ValidationError(<<"Computed shard count exceeds max_shards", "">>)) ELSE
    LET base_size == total_points \div shard_count
        remainder == total_points % shard_count
        bounds == BuildBounds(0, shard_count, base_size, remainder, 0) IN
    IF bounds # <<>> /\ (bounds[1].start_index # 0
                          \/ bounds[Len(bounds)].end_index # total_points)
    THEN BoundsRaise(RuntimeError(<<"Shard boundaries do not cover full parameter space", "">>)) ELSE
    IF \E idx \in 2..Len(bounds) : bounds[idx - 1].end_index # bounds[idx].start_index
    THEN BoundsRaise(RuntimeError(<<"Shard boundaries overlap or leave gaps", "">>)) ELSE
    BoundsReturn(bounds)

---------------------------------------------------------------------------
(* Inputs *)

\* Bounds of the inputs
MaxDimLen == 3        \* values per dimension
MaxShardParam == 4    \* largest shard_count, shard_size and max_shards drawn

Values(n) == [i \in 1..n |-> i]

Dim(name, n) == [name |-> name, values |-> ListV(Values(n))]

Payload(run_id, dimensions, shard_count, shard_size, max_shards, seed, fis) ==
    [kind |-> "object", run_id |-> run_id, dimensions |-> dimensions,
     shard_count |-> shard_count, shard_size |-> shard_size,
     max_shards |-> max_shards, seed |-> seed, failure_injection_shards |-> fis]

\* {}: every key is missing
EmptyPayload == Payload(AbsentSeq, AbsentSeq, Absent, Absent, Absent, Absent, AbsentSeq)

\* a JSON document that is not an object
NonObject(kind) == [EmptyPayload EXCEPT !.kind = kind]

NameA == <<"a">>
NameB == <<"b">>

\* well-formed dimension mappings, in both insertion orders
GoodDimensions ==
    {<<Dim(NameA, n)>> : n \in 1..MaxDimLen}
        \cup {<<Dim(NameA, n), Dim(NameB, m)>> : n \in 1..MaxDimLen, m \in 1..MaxDimLen}
        \cup {<<Dim(NameB, m), Dim(NameA, n)>> : n \in 1..MaxDimLen, m \in 1..MaxDimLen}

\* mappings the validator rejects
BadDimensions ==
    {<<>>,
     <<Dim(<<" ">>, 2)>>,
     <<Dim(NameA, 0)>>,
     <<[name |-> NameA, values |-> BadSeq]>>,
     <<Dim(NameA, MAX_DIMENSION_VALUES + 1)>>,
     <<Dim(NameA, 500), Dim(NameB, 401)>>}

BasePayload ==
    Payload(StrV(<<"r">>), DictV(<<Dim(NameB, 3), Dim(NameA, 2)>>),
            IntV(4), Absent, Absent, Absent, AbsentSeq)

\* one field of the base payload replaced
Malformed ==
    {[BasePayload EXCEPT !.run_id = x] : x \in {AbsentSeq, BadSeq, StrV(<<" ">>), StrV(<<>>)}}
        \cup {[BasePayload EXCEPT !.dimensions = x] : x \in {AbsentSeq, BadSeq}}
        \cup {[BasePayload EXCEPT !.dimensions = DictV(d)] : d \in BadDimensions}
        \cup {[BasePayload EXCEPT !.shard_count = x] : x \in {Absent, Bad, IntV(0), IntV(-1)}}
        \cup {[BasePayload EXCEPT !.shard_size = x] : x \in {Bad, IntV(0)}}
        \cup {[BasePayload EXCEPT !.max_shards = x] : x \in {Bad, IntV(0)}}
        \cup {[BasePayload EXCEPT !.seed = Bad]}
        \cup {[BasePayload EXCEPT !.failure_injection_shards = x] :
                 x \in {BadSeq, ListV(<<0, -1>>)}}
        \cup {NonObject("list"), NonObject("scalar"), EmptyPayload}

\* requests at the ceilings: the most values a dimension may have, and the
\* most points a parameter space may have
AtCeiling ==
    {[BasePayload EXCEPT !.dimensions = DictV(d)] :
        d \in {<<Dim(NameA, MAX_DIMENSION_VALUES)>>,
               <<Dim(NameB, 400), Dim(NameA, 500)>>}}

\* the payloads the validator and the partitioner are applied to
SweepPayloads ==
    {Payload(StrV(<<" ", "r">>), DictV(d), sc, ss, ms, IntV(7), ListV(<<2, 0, 2>>)) :
        d \in GoodDimensions,
        sc \in {Absent} \cup {IntV(n) : n \in 1..MaxShardParam},
        ss \in {Absent, Huge} \cup {IntV(n) : n \in 1..MaxShardParam},
        ms \in {Absent} \cup {IntV(n) : n \in 1..MaxShardParam}}
        \cup Malformed
        \cup AtCeiling

---------------------------------------------------------------------------
(* The validator and the partitioner applied to one payload *)

NoBounds == [ok |-> FALSE, error |-> NoError, bounds |-> <<>>]

SweepIdle ==
    [pc |-> "idle", payload |-> EmptyPayload, validated |-> Raise(NoError),
     partition |-> NoBounds, revalidated |-> Raise(NoError)]

\* the dict validate_sweep_request returned, given as a payload again: every
\* key it has, with its value (total_points is a key the validator never reads)
AsPayload(request) ==
    Payload(StrV(request.run_id),
            DictV([i \in 1..Len(request.dimensions) |->
                      [name |-> request.dimensions[i].name,
                       values |-> ListV(request.dimensions[i].values)]]),
            request.shard_count, request.shard_size,
            IntV(request.max_shards), IntV(request.seed),
            ListV(request.failure_injection_shards))

SweepInit ==
    /\ sweep \in {[SweepIdle EXCEPT !.pc = "input", !.payload = p] : p \in SweepPayloads}

SweepValidate ==
    /\ sweep.pc = "input"
    /\ sweep' = [sweep EXCEPT !.pc = "validated",
                              !.validated = validate_sweep_request(sweep.payload)]
    /\ UNCHANGED <<env, today, parent, invocations, child, store, evaluation>>

SweepPartition ==
    /\ sweep.pc = "validated"
    /\ sweep.validated.ok
    /\ sweep' = [sweep EXCEPT !.pc = "partitioned",
                              !.partition = compute_shard_bounds(sweep.validated.request)]
    /\ UNCHANGED <<env, today, parent, invocations, child, store, evaluation>>

\* validate_sweep_request applied to what it returned
SweepRevalidate ==
    /\ sweep.pc = "validated"
    /\ sweep.validated.ok
    /\ sweep' = [sweep EXCEPT !.pc = "revalidated",
                              !.revalidated =
                                  validate_sweep_request(AsPayload(sweep.validated.request))]
    /\ UNCHANGED <<env, today, parent, invocations, child, store, evaluation>>

---------------------------------------------------------------------------
(* _normalize_apigw_event *)

\* An event is either the bare payload (no "body" key) or an envelope whose
\* body is None, a dict, a JSON string (well-formed or not) or something else.
BareEvent(p) == [body |-> "missing", payload |-> p]
Envelope(kind, p) == [body |-> kind, payload |-> p]

NormRaise(e) == [ok |-> FALSE, error |-> e, payload |-> EmptyPayload]
NormReturn(p) == [ok |-> TRUE, error |-> NoError, payload |-> p]

normalize_apigw_event(event) ==
    IF event.body = "missing" THEN NormReturn(event.payload)
    ELSE IF event.body = "none" THEN NormReturn(EmptyPayload)
    ELSE IF event.body = "dict" THEN NormReturn(event.payload)
    ELSE IF event.body # "str" /\ event.body # "str_malformed"
    THEN NormRaise(ValidationError(<<"Request body must be a JSON object", "">>))
    ELSE IF event.body = "str_malformed"
    THEN NormRaise(ValidationError(<<"Malformed JSON body", "">>))
    ELSE NormReturn(event.payload)                      \* json.loads(body)

---------------------------------------------------------------------------
(* _response, _stable_json *)

Body(error, message, run_id, total_points, shards_dispatched, dispatches, status) ==
    [error |-> error, message |-> message, run_id |-> run_id,
     total_points |-> total_points, shards_dispatched |-> shards_dispatched,
     dispatches |-> dispatches, status |-> status]

ErrorBody(error, message) == Body(error, message, <<>>, 0, 0, <<>>, "")

Response(status_code, payload) == [statusCode |-> status_code, body |-> payload]

NoResponse == Response(0, ErrorBody("", <<"", "">>))

\* json.dumps(value, sort_keys=True, ...): the keys of every dict, here the
\* dimension names, are written in sorted order; values are written as they are
StableJson(task) ==
    [task EXCEPT !.dimensions =
        LET d == task.dimensions
            names == SortedNames({d[i].name : i \in 1..Len(d)})
        IN  [j \in 1..Len(names) |->
                d[CHOOSE i \in 1..Len(d) : d[i].name = names[j]]]]

---------------------------------------------------------------------------
(* parent_handler *)

UNSET == "<unset>"       \* os.environ.get(...) returning None

ChildArn == "arn:child"

\* StatusCode of an accepted invoke; 0 stands for a reply without the key
AckCodes == {202}

\* what an invoke call returns: a dict with a StatusCode, or one without
Replies == {IntV(202), IntV(200), Absent}

\* variant: every accepted call is taken to have answered 202
StatusCodeAssumed(reply) == 202

\* invocation.get("StatusCode", 0), line 249
StatusCodeOf(reply) == IF reply.k = "absent" THEN 0 ELSE reply.v

\* variant: the task carries the index of the last point of its shard
ChildPayloadInclusiveEnd(request, shard) ==
    [run_id |-> request.run_id,
     dimensions |-> request.dimensions,
     total_points |-> request.total_points,
     shard_id |-> shard.shard_id,
     start_index |-> shard.start_index,
     end_index |-> shard.end_index - 1,
     seed |-> request.seed,
     failure_injection_shards |-> request.failure_injection_shards]

\* lines 231-240
ChildPayload(request, shard) ==
    [run_id |-> request.run_id,
     dimensions |-> request.dimensions,
     total_points |-> request.total_points,
     shard_id |-> shard.shard_id,
     start_index |-> shard.start_index,
     end_index |-> shard.end_index,
     seed |-> request.seed,
     failure_injection_shards |-> request.failure_injection_shards]

ParentIdle ==
    [pc |-> "idle", validation |-> "none", request |-> NullRequest,
     child_arn |-> UNSET, shard_bounds |-> <<>>, cursor |-> 0,
     dispatches |-> <<>>, response |-> NoResponse, error |-> NoError]

ParentReturned(p, r) == [p EXCEPT !.pc = "returned", !.response = r]
ParentRaised(p, e) == [p EXCEPT !.pc = "raised", !.error = e]

\* variant: the validation error is not caught
OnValidationErrorReraise(p, exc) == ParentRaised(p, exc)

\* lines 213-214: except ValidationError -> 400
OnValidationError(p, exc) ==
    ParentReturned(p, Response(400, ErrorBody("validation_error", exc.msg)))

\* variant: only a missing variable counts, an empty one is used as the target
MissingWorkerTargetNoneOnly(child_arn) == child_arn = UNSET

\* line 217: not child_arn
MissingWorkerTarget(child_arn) == child_arn = UNSET \/ child_arn = ""

\* variant: the exception is swallowed and the loop goes on to the next shard
OnDispatchErrorContinue(p, exc) == [p EXCEPT !.cursor = p.cursor + 1]

\* lines 241-245: an exception of lambda_client.invoke leaves the loop and the handler
OnDispatchError(p, exc) == ParentRaised(p, exc)

\* lines 210-227: everything parent_handler does before its first invoke call.
\* client_ok: a lambda client was passed in or boto3 can build one.
ParentEnter(event, client_ok) ==
    LET norm == normalize_apigw_event(event)
        val == IF norm.ok THEN validate_sweep_request(norm.payload) ELSE Raise(norm.error)
    IN
    IF ~val.ok /\ val.error.type = "ValidationError"
    THEN OnValidationError([ParentIdle EXCEPT !.validation = "ValidationError"], val.error)
    ELSE IF ~val.ok
    THEN ParentRaised([ParentIdle EXCEPT !.validation = val.error.type], val.error)
    ELSE
    LET p1 == [ParentIdle EXCEPT !.validation = "ok", !.request = val.request,
                                 !.child_arn = env.CHILD_LAMBDA_ARN]
    IN
    IF MissingWorkerTarget(p1.child_arn)
    THEN ParentReturned(p1, Response(500, ErrorBody("misconfiguration",
                                <<"CHILD_LAMBDA_ARN must be configured", "">>)))
    ELSE
    LET sb == compute_shard_bounds(val.request) IN
    IF ~sb.ok THEN ParentRaised(p1, sb.error)
    ELSE IF ~client_ok
    THEN ParentRaised(p1, RuntimeError(<<"boto3 is required for live Lambda dispatch", "">>))
    ELSE [p1 EXCEPT !.pc = "dispatching", !.shard_bounds = sb.bounds, !.cursor = 1]

\* the requests the coordinator is given
ParentDimensions == {<<Dim(NameA, 2)>>, <<Dim(NameB, 3), Dim(NameA, 1)>>}

ParentPayloads ==
    {Payload(StrV(<<"r">>), DictV(d), sc, Absent, Absent, Absent, ListV(<<1, 1>>)) :
        d \in ParentDimensions,
        sc \in {IntV(2), IntV(MaxShardParam)}}
        \cup {Payload(StrV(<<"r">>), DictV(d), sc, IntV(1), IntV(2), IntV(7), AbsentSeq) :
                 d \in ParentDimensions,
                 sc \in {Absent, IntV(MaxShardParam)}}
        \cup Malformed

ParentEvents ==
    {BareEvent(p) : p \in ParentPayloads}
        \cup {Envelope("dict", p) : p \in ParentPayloads}
        \cup {Envelope("str", p) : p \in ParentPayloads}
        \cup {Envelope(k, EmptyPayload) : k \in {"none", "other", "str_malformed"}}

\* parent_handler is invoked with one of `events`: lines 210-228
ParentReceiveOf(events) ==
    /\ parent.pc = "idle"
    /\ \E event \in events, client_ok \in BOOLEAN :
          parent' = ParentEnter(event, client_ok)
    /\ UNCHANGED <<env, today, invocations, child, store, sweep, evaluation>>

ParentReceive == ParentReceiveOf(ParentEvents)

\* requests over the parameter space a x b of 2 x 3 points, the dimensions
\* given as b, a: 4 shards, or shards of 4 points, without and with an
\* injected failure
RunPayloads ==
    {Payload(StrV(<<"r">>), DictV(<<Dim(NameB, 3), Dim(NameA, 2)>>),
             sc, ss, Absent, IntV(7), fis) :
        sc \in {Absent, IntV(4)}, ss \in {IntV(4)},
        fis \in {AbsentSeq, ListV(<<2>>)}}

RunEvents == {BareEvent(p) : p \in RunPayloads}

ParentReceiveRun == ParentReceiveOf(RunEvents)


\* lambda_client.invoke(FunctionName, InvocationType="Event", Payload), lines 241-245
Invoke(child_arn, child_payload, raised) ==
    [FunctionName |-> child_arn, InvocationType |-> "Event",
     Payload |-> StableJson(child_payload), raised |-> raised, reply |-> Absent]

DispatchError == [type |-> "ClientError", msg |-> <<"invoke failed", "">>]

---------------------------------------------------------------------------
(* Outcome keys and records *)

\* variant: the key has no shard segment
PartitionedOutcomeKeyNoShard(run_id, status, shard_id, prefix) ==
    [prefix |-> StripSlash(prefix), run_id |-> run_id, status |-> status,
     date |-> today, shard_id |-> 0]

\* _partitioned_outcome_key: the segments of
\* {prefix}/run_id={run_id}/status={status}/date={date}/shard_id={shard_id}.json
PartitionedOutcomeKey(run_id, status, shard_id, prefix) ==
    [prefix |-> StripSlash(prefix), run_id |-> run_id, status |-> status,
     date |-> today, shard_id |-> shard_id]

Digit(n) ==
    CASE n = 0 -> "0" [] n = 1 -> "1" [] n = 2 -> "2" [] n = 3 -> "3" [] n = 4 -> "4"
      [] n = 5 -> "5" [] n = 6 -> "6" [] n = 7 -> "7" [] n = 8 -> "8" [] n = 9 -> "9"

RECURSIVE NatToStr(_)
NatToStr(n) == IF n < 10 THEN <<Digit(n)>> ELSE NatToStr(n \div 10) \o <<Digit(n % 10)>>

\* str(n) of an int, as the f-string formats shard_id
IntToStr(n) == IF n < 0 THEN <<"-">> \o NatToStr(-n) ELSE NatToStr(n)

\* strftime("%Y-%m-%d") of the day `date` days after 2026-01-01
DateString(date) ==
    <<"2", "0", "2", "6", "-", "0", "1", "-">>
        \o <<Digit((date + 1) \div 10), Digit((date + 1) % 10)>>

StatusString(status) ==
    IF status = "success" THEN <<"s", "u", "c", "c", "e", "s", "s">>
    ELSE <<"f", "a", "i", "l", "u", "r", "e">>

\* variant: the key has no run_id segment
OutcomeKeyStringNoRunId(key) ==
    key.prefix
        \o <<"/", "s", "t", "a", "t", "u", "s", "=">> \o StatusString(key.status)
        \o <<"/", "d", "a", "t", "e", "=">> \o DateString(key.date)
        \o <<"/", "s", "h", "a", "r", "d", "_", "i", "d", "=">> \o IntToStr(key.shard_id)
        \o <<".", "j", "s", "o", "n">>

\* the string _partitioned_outcome_key returns, character by character
OutcomeKeyString(key) ==
    key.prefix
        \o <<"/", "r", "u", "n", "_", "i", "d", "=">> \o key.run_id
        \o <<"/", "s", "t", "a", "t", "u", "s", "=">> \o StatusString(key.status)
        \o <<"/", "d", "a", "t", "e", "=">> \o DateString(key.date)
        \o <<"/", "s", "h", "a", "r", "d", "_", "i", "d", "=">> \o IntToStr(key.shard_id)
        \o <<".", "j", "s", "o", "n">>

NullKey == [prefix |-> <<>>, run_id |-> <<>>, status |-> "", date |-> 0, shard_id |-> 0]

NullSummary ==
    [run_id |-> <<>>, shard_id |-> 0, start_index |-> 0, end_index |-> 0,
     metrics |-> [points_processed |-> 0, completed_rides |-> 0,
                 abandoned_rides |-> 0, platform_revenue_cents |-> 0]]

NoMetadata ==
    [result_key |-> NullKey, points_processed |-> 0, summary |-> NullSummary, format |-> ""]

\* variant: the error is never attached to the record
OutcomeRecordNoError(payload, status, has_output_metadata, output_metadata, has_error, error) ==
    [run_id |-> payload.run_id,
     shard_id |-> payload.shard_id,
     status |-> status,
     start_index |-> payload.start_index,
     end_index |-> payload.end_index,
     event_time |-> today,
     record_schema |-> "v1",
     has_output_metadata |-> has_output_metadata,
     output_metadata |-> IF has_output_metadata THEN output_metadata ELSE NoMetadata,
     has_error |-> FALSE,
     error_code |-> "",
     error_message |-> <<"", "">>]

\* _outcome_record; has_output_metadata and has_error say which optional keys exist
OutcomeRecord(payload, status, has_output_metadata, output_metadata, has_error, error) ==
    [run_id |-> payload.run_id,
     shard_id |-> payload.shard_id,
     status |-> status,
     start_index |-> payload.start_index,
     end_index |-> payload.end_index,
     event_time |-> today,
     record_schema |-> "v1",
     has_output_metadata |-> has_output_metadata,
     output_metadata |-> IF has_output_metadata THEN output_metadata ELSE NoMetadata,
     has_error |-> has_error,
     error_code |-> IF has_error THEN error.type ELSE "",
     error_message |-> IF has_error THEN error.msg ELSE <<"", "">>]

---------------------------------------------------------------------------
(* _dimension_product, _run_shard *)

\* itertools.product over the dimension value lists, first dimension outermost
RECURSIVE DimensionProduct(_)
DimensionProduct(dimensions) ==
    IF dimensions = <<>> THEN << <<>> >>
    ELSE LET first == Head(dimensions)
             n == Len(first.values)
         IN  CHOOSE points \in
                 {[k \in 1..(n * Len(rest)) |->
                     <<[name |-> first.name,
                        value |-> first.values[((k - 1) \div Len(rest)) + 1]]>>
                         \o rest[((k - 1) % Len(rest)) + 1]] :
                     rest \in {DimensionProduct(Tail(dimensions))}} : TRUE

---------------------------------------------------------------------------
(* _sha256_seed, _deterministic_result *)

\* the printable ASCII characters, in code point order from 32 (the place of
\* the grave accent, 96, is left empty)
Ascii ==
    <<" ", "!", "\"", "#", "$", "%", "&", "'", "(", ")", "*", "+",
      ",", "-", ".", "/", "0", "1", "2", "3", "4", "5", "6", "7",
      "8", "9", ":", ";", "<", "=", ">", "?", "@", "A", "B", "C",
      "D", "E", "F", "G", "H", "I", "J", "K", "L", "M", "N", "O",
      "P", "Q", "R", "S", "T", "U", "V", "W", "X", "Y", "Z", "[",
      "\\", "]", "^", "_", "", "a", "b", "c", "d", "e", "f", "g",
      "h", "i", "j", "k", "l", "m", "n", "o", "p", "q", "r", "s",
      "t", "u", "v", "w", "x", "y", "z", "{", "|", "}", "~">>

\* ord(c), as a table
Ord == [c \in Range(Ascii) |-> 31 + (CHOOSE i \in 1..Len(Ascii) : Ascii[i] = c)]

\* text.encode("utf-8"), for ASCII text
Encode(text) == [i \in 1..Len(text) |-> Ord[text[i]]]

\* sep.join(parts)
RECURSIVE Join(_, _)
Join(parts, sep) ==
    IF parts = <<>> THEN <<>>
    ELSE IF Len(parts) = 1 THEN parts[1]
    ELSE parts[1] \o sep \o Join(Tail(parts), sep)

\* _stable_json(point): {"a":1,"b":2}, keys sorted, no whitespace
PointJson(point) ==
    LET item(name) == LET e == CHOOSE e \in Range(point) : e.name = name
                      IN  <<"\"">> \o e.name \o <<"\"", ":">> \o IntToStr(e.value)
    IN  CHOOSE text \in
            {<<"{">> \o Join([j \in 1..Len(names) |-> item(names[j])], <<",">>) \o <<"}">> :
                names \in {SortedNames({e.name : e \in Range(point)})}} : TRUE

\* one byte of the digest.  SHA-256 itself is not computed: DigestByte is a
\* fixed function of the bytes of the text and of nothing else, which is all
\* that is used of hashlib.sha256 here.
DigestByte(bytes, h0) ==
    LET h[i \in 0..Len(bytes)] ==
            IF i = 0 THEN h0 ELSE (h[i - 1] * 33 + bytes[i]) % 256
    IN  h[Len(bytes)]

\* digest[:8], most significant byte first
Digest8(bytes) ==
    <<DigestByte(bytes, 17), DigestByte(bytes, 34), DigestByte(bytes, 51),
      DigestByte(bytes, 68), DigestByte(bytes, 85), DigestByte(bytes, 102),
      DigestByte(bytes, 119), DigestByte(bytes, 136)>>

\* variant: the digest is salted with the current date
Sha256SeedSalted(parts) ==
    CHOOSE state \in
        {Digest8(Encode(joined)) :
            joined \in {Join(parts, <<"|">>) \o IntToStr(today)}} : TRUE

\* _sha256_seed: the unsigned 64-bit integer of digest[:8] of "|".join(parts),
\* as its 8 bytes (the text is encoded once, then digested)
Sha256Seed(parts) ==
    CHOOSE state \in
        {Digest8(Encode(joined)) : joined \in {Join(parts, <<"|">>)}} : TRUE

\* state % m for the big-endian bytes of state, m < 2^23
ModBytes(bytes, m) ==
    LET r[i \in 0..Len(bytes)] ==
            IF i = 0 THEN 0 ELSE (r[i - 1] * 256 + bytes[i]) % m
    IN  r[Len(bytes)]

\* variant: only the low 32 bits of state are used
MetricsOfLowWord(state) ==
    LET word == SubSeq(state, 5, 8)
        completed_rides == ModBytes(word, 200) + 10
        abandoned_rides == ModBytes(word, 400) \div 10
        revenue_cents == completed_rides * (500 + ModBytes(word, 1200))
    IN  [completed_rides |-> completed_rides,
         abandoned_rides |-> abandoned_rides,
         platform_revenue_cents |-> revenue_cents]

\* lines 293-299; state // 10 % 40 = (state % 400) // 10
MetricsOf(state) ==
    LET completed_rides == ModBytes(state, 200) + 10
        abandoned_rides == ModBytes(state, 400) \div 10
        revenue_cents == completed_rides * (500 + ModBytes(state, 1200))
    IN  [completed_rides |-> completed_rides,
         abandoned_rides |-> abandoned_rides,
         platform_revenue_cents |-> revenue_cents]

\* _deterministic_result: point_json and state are computed once each
DeterministicResult(run_id, shard_id, point, seed) ==
    CHOOSE metrics \in
        {MetricsOf(state) :
            state \in {Sha256Seed(<<run_id, IntToStr(shard_id), point_json, IntToStr(seed)>>) :
                          point_json \in {PointJson(point)}}} : TRUE

\* the largest value of the seventh byte of a state that is enumerated in full
MaxStateByte == 4

\* 64-bit states as digest[:8] can produce them, most significant byte first:
\* the low 16 bits run through every residue of 200, 400 and 1200, and the
\* upper bytes are all zero, all ones, or mixed
EvaluatorStates ==
    {<<h, h, h, g, b5, b6, b7, b8>> :
        h \in {0, 255}, g \in {0, 1, 255}, b5 \in {0, 127, 255}, b6 \in {0, 255},
        b7 \in (0..MaxStateByte) \cup {255}, b8 \in 0..255}

NoMetrics == [completed_rides |-> 0, abandoned_rides |-> 0, platform_revenue_cents |-> 0]

EvaluationIdle == [pc |-> "idle", state |-> <<0, 0, 0, 0, 0, 0, 0, 0>>, metrics |-> NoMetrics]

\* lines 292-299 for one value of state
Evaluate ==
    /\ evaluation.pc = "state"
    /\ evaluation' = [evaluation EXCEPT !.pc = "returned",
                                        !.metrics = MetricsOf(evaluation.state)]
    /\ UNCHANGED <<env, today, parent, invocations, child, store, sweep>>

\* variant: the metrics of the points are not accumulated
AggregateCountOnly(payload, shard_points, n) ==
    [points_processed |-> Len(shard_points), completed_rides |-> 0,
     abandoned_rides |-> 0, platform_revenue_cents |-> 0]

\* the aggregate of lines 311-325 over shard_points[1..n]
RECURSIVE Aggregate(_, _, _)
Aggregate(payload, shard_points, n) ==
    IF n = 0
    THEN [points_processed |-> Len(shard_points), completed_rides |-> 0,
          abandoned_rides |-> 0, platform_revenue_cents |-> 0]
    ELSE LET aggregate == Aggregate(payload, shard_points, n - 1)
         IN  CHOOSE sum \in
                 {[aggregate EXCEPT
                     !.completed_rides = @ + metrics.completed_rides,
                     !.abandoned_rides = @ + metrics.abandoned_rides,
                     !.platform_revenue_cents = @ + metrics.platform_revenue_cents] :
                     metrics \in {DeterministicResult(payload.run_id, payload.shard_id,
                                                      shard_points[n], payload.seed)}} : TRUE

\* the calls of _deterministic_result the loop of lines 316-322 makes over
\* shard_points[1..n], in order, each with its four arguments
RECURSIVE EvaluatorCalls(_, _, _)
EvaluatorCalls(payload, shard_points, n) ==
    IF n = 0 THEN <<>>
    ELSE Append(EvaluatorCalls(payload, shard_points, n - 1),
                [run_id |-> payload.run_id, shard_id |-> payload.shard_id,
                 point |-> shard_points[n], seed |-> payload.seed])

RunRaise(e) ==
    [ok |-> FALSE, error |-> e, shard_points |-> <<>>, summary |-> NullSummary,
     calls |-> <<>>]

RunShard(event) ==
    LET payload == event.task IN
    IF event.uniterable
    THEN RunRaise(TypeError(<<"object is not iterable", "">>)) ELSE
    LET start_index == payload.start_index
        end_index == payload.end_index IN
    \* parameter_points and parameter_points[start_index:end_index] are
    \* computed once each
    CHOOSE run \in
        {IF start_index < 0 \/ end_index > Len(parameter_points) \/ start_index >= end_index
         THEN RunRaise(ValidationError(<<"Invalid shard bounds", "">>))
         ELSE CHOOSE ran \in
                {[ok |-> TRUE, error |-> NoError, shard_points |-> shard_points,
                  summary |-> [run_id |-> payload.run_id, shard_id |-> payload.shard_id,
                               start_index |-> start_index, end_index |-> end_index,
                               metrics |-> Aggregate(payload, shard_points, Len(shard_points))],
                  calls |-> EvaluatorCalls(payload, shard_points, Len(shard_points))] :
                    shard_points \in {SubSeq(parameter_points, start_index + 1, end_index)}} : TRUE :
            parameter_points \in {DimensionProduct(payload.dimensions)}} : TRUE

---------------------------------------------------------------------------
(* child_handler *)

RequiredKeys ==
    <<"run_id", "dimensions", "total_points", "shard_id", "start_index",
      "end_index", "seed", "failure_injection_shards">>

ExpectedType(key) ==
    CASE key = "run_id" -> "str"
      [] key = "dimensions" -> "dict"
      [] key = "failure_injection_shards" -> "list"
      [] OTHER -> "int"

\* an event: the task, the keys it lacks, the keys whose value has the wrong
\* type, and whether a dimension's value is something product() cannot iterate
Event(task, missing, mistyped, uniterable) ==
    [task |-> task, missing |-> missing, mistyped |-> mistyped, uniterable |-> uniterable]

FieldOf(event, key) ==
    IF key \in event.missing THEN Absent
    ELSE IF key \in event.mistyped THEN Bad
    ELSE [k |-> ExpectedType(key), v |-> 0]

\* the loop over required_keys, lines 377-378: the first error, or NoError
RECURSIVE TaskFieldsError(_, _)
TaskFieldsError(event, i) ==
    IF i > Len(RequiredKeys) THEN NoError
    ELSE LET e == Required("object", FieldOf(event, RequiredKeys[i]),
                           RequiredKeys[i], ExpectedType(RequiredKeys[i]))
         IN  IF e # NoError THEN e ELSE TaskFieldsError(event, i + 1)

NullTask == ChildPayload(NullRequest, ShardBounds(0, 0, 0))
NullEvent == Event(NullTask, {}, {}, FALSE)
NullRecord == OutcomeRecord(NullTask, "", FALSE, NoMetadata, FALSE, NoError)
NoResult == [status |-> "", shard_id |-> 0, outcome_key |-> NullKey]

StoreWriteError == [type |-> "ClientError", msg |-> <<"put_object failed", "">>]

\* one slot per event: pc, the number of invocations started, and for the
\* current invocation the event, the exception being handled, the pending
\* write, the evaluator calls and the write calls made so far, and how it
\* ended
ChildIdle ==
    [pc |-> "idle", runs |-> 0, event |-> NullEvent, exc |-> NoError,
     key |-> NullKey, record |-> NullRecord, prefix |-> <<>>,
     calls |-> <<>>, writes |-> <<>>, result |-> NoResult, error |-> NoError]

ChildRaised(c, e) == [c EXCEPT !.pc = "raised", !.error = e]

\* variant: the except block re-raises without recording the failure
ChildExceptReraise(c, exc) == ChildRaised([c EXCEPT !.exc = exc], exc)

\* lines 411-415: the except block up to its write call
ChildExcept(c, exc) ==
    LET payload == c.event.task IN
    [c EXCEPT !.pc = "writing_failure",
              !.exc = exc,
              !.key = PartitionedOutcomeKey(payload.run_id, "failure", payload.shard_id, c.prefix),
              !.record = OutcomeRecord(payload, "failure", FALSE, NoMetadata, TRUE, exc)]

\* line 382: not bucket
MissingBucket(bucket) == bucket = UNSET \/ bucket = ""

\* variant: the testing hook is not there
InjectionIgnored(payload) == FALSE

\* line 388: payload["shard_id"] in payload["failure_injection_shards"]
InjectionRequested(payload) ==
    payload.shard_id \in Range(payload.failure_injection_shards)

\* lines 366-404: child_handler up to its first write call
ChildEnter(c, event) ==
    LET c1 == [ChildIdle EXCEPT !.runs = c.runs + 1, !.event = event]
        e == TaskFieldsError(event, 1) IN
    IF e # NoError THEN ChildRaised(c1, e) ELSE
    LET bucket == env.SWEEP_RESULTS_BUCKET
        c2 == [c1 EXCEPT !.prefix = IF env.SWEEP_RESULTS_PREFIX.k = "absent"
                                    THEN DEFAULT_PREFIX ELSE env.SWEEP_RESULTS_PREFIX.v] IN
    IF MissingBucket(bucket)
    THEN ChildRaised(c2, RuntimeError(<<"SWEEP_RESULTS_BUCKET must be configured", "">>)) ELSE
    LET payload == event.task IN
    IF InjectionRequested(payload)
    THEN ChildExcept(c2, RuntimeError(<<"Injected shard failure for verification", "">>)) ELSE
    \* line 390: _run_shard is called once
    CHOOSE entered \in
        {IF ~run.ok THEN ChildExcept(c2, run.error) ELSE
         LET result_key == PartitionedOutcomeKey(payload.run_id, "success",
                                                 payload.shard_id, c2.prefix)
         IN  [c2 EXCEPT !.pc = "writing_success",
                        !.calls = run.calls,
                        !.key = result_key,
                        !.record = OutcomeRecord(payload, "success", TRUE,
                                       [result_key |-> result_key,
                                        points_processed |-> Len(run.shard_points),
                                        summary |-> run.summary,
                                        format |-> "parquet-compatible-json"],
                                       FALSE, NoError)] :
            run \in {RunShard(event)}} : TRUE

WriteCall(c, ok) == [key |-> c.key, status |-> c.record.status, ok |-> ok]

\* variant: the success write is outside the try block
ChildAfterWriteNoFailureRecord(c, ok) ==
    LET c1 == [c EXCEPT !.writes = Append(c.writes, WriteCall(c, ok))] IN
    IF c.pc = "writing_success"
    THEN IF ok
         THEN [c1 EXCEPT !.pc = "returned",
                         !.result = [status |-> "ok", shard_id |-> c.event.task.shard_id,
                                     outcome_key |-> c.key]]
         ELSE ChildRaised(c1, StoreWriteError)
    ELSE IF ok
         THEN ChildRaised(c1, c.exc)
         ELSE ChildRaised(c1, StoreWriteError)

\* variant: an error of the success write is swallowed and the handler
\* acknowledges
ChildAfterWriteAcknowledging(c, ok) ==
    LET c1 == [c EXCEPT !.writes = Append(c.writes, WriteCall(c, ok))] IN
    IF c.pc = "writing_success"
    THEN [c1 EXCEPT !.pc = "returned",
                    !.result = [status |-> "ok", shard_id |-> c.event.task.shard_id,
                                outcome_key |-> c.key]]
    ELSE IF ok
         THEN ChildRaised(c1, c.exc)
         ELSE ChildRaised(c1, StoreWriteError)

\* lines 405-410 and 416-417: the write call and what follows it
ChildAfterWrite(c, ok) ==
    LET c1 == [c EXCEPT !.writes = Append(c.writes, WriteCall(c, ok))] IN
    IF c.pc = "writing_success"
    THEN IF ok
         THEN [c1 EXCEPT !.pc = "returned",
                         !.result = [status |-> "ok", shard_id |-> c.event.task.shard_id,
                                     outcome_key |-> c.key]]
         ELSE ChildExcept(c1, StoreWriteError)
    ELSE IF ok
         THEN ChildRaised(c1, c.exc)
         ELSE ChildRaised(c1, StoreWriteError)

\* variant: the write replaces the whole store content
PutReplacingStore(st, key, record) == [k \in {key} |-> record]

\* write_outcome(bucket, key, body): a full-record overwrite of the key
Put(st, key, record) ==
    [k \in DOMAIN st \cup {key} |-> IF k = key THEN record ELSE st[k]]

---------------------------------------------------------------------------
(* Environment, direct invocations, bounds of the runs *)

MaxDay == 1     \* the date advances at most this many times
MaxRetries == 0     \* re-deliveries of dispatched events, over a whole run
MaxDirectRuns == 2  \* invocations of child_handler in the worker-only specification

Env(arn, bucket, prefix) ==
    [CHILD_LAMBDA_ARN |-> arn, SWEEP_RESULTS_BUCKET |-> bucket,
     SWEEP_RESULTS_PREFIX |-> prefix]

\* the configurations of a deployment: the coordinator's worker target and
\* the workers' store location
Envs ==
    {Env(ChildArn, "bucket", StrV(<<"/", "s", "/">>)),
     Env(UNSET, "bucket", AbsentSeq),
     Env("", "bucket", AbsentSeq),
     Env(ChildArn, UNSET, AbsentSeq)}

\* the configurations of a worker
ChildEnvs ==
    {Env(ChildArn, bucket, prefix) :
        bucket \in {UNSET, "", "bucket"},
        prefix \in {AbsentSeq, StrV(<<"/", "s", "/">>), StrV(<<"s">>)}}

DirectTask ==
    [run_id |-> <<"s">>,
     dimensions |-> <<[name |-> NameA, values |-> Values(2)]>>,
     total_points |-> 2, shard_id |-> 0, start_index |-> 0, end_index |-> 2,
     seed |-> 0, failure_injection_shards |-> <<>>]

\* events handed to child_handler by something other than the coordinator
DirectEvents ==
    {Event(DirectTask, {}, {}, FALSE),
     Event(DirectTask, {"run_id"}, {}, FALSE),
     Event(DirectTask, {}, {"shard_id"}, FALSE),
     Event([DirectTask EXCEPT !.start_index = 2], {}, {}, FALSE),
     Event([DirectTask EXCEPT !.end_index = 3], {}, {}, FALSE),
     Event([DirectTask EXCEPT !.failure_injection_shards = <<0>>], {}, {}, FALSE),
     Event([DirectTask EXCEPT !.failure_injection_shards = <<0>>, !.start_index = -1],
           {}, {}, FALSE),
     Event(DirectTask, {}, {}, TRUE)}

Direct == 0     \* the slot of the direct invocations; slot i >= 1 is invocations[i]

EmptyStore == [k \in {} |-> NullRecord]

---------------------------------------------------------------------------
(* Actions *)

\* one iteration of the dispatch loop, lines 230-251, with an invoke call
\* that raises or returns one of `replies`
ParentDispatchReplying(replies) ==
    /\ parent.pc = "dispatching"
    /\ parent.cursor <= Len(parent.shard_bounds)
    /\ LET shard == parent.shard_bounds[parent.cursor]
           child_payload == ChildPayload(parent.request, shard)
       IN  \/ \E reply \in replies :
                /\ invocations' = Append(invocations,
                                      [Invoke(parent.child_arn, child_payload, FALSE)
                                          EXCEPT !.reply = reply])
                /\ parent' = [parent EXCEPT
                                 !.cursor = parent.cursor + 1,
                                 !.dispatches = Append(parent.dispatches,
                                     [shard_id |-> shard.shard_id,
                                      status_code |-> StatusCodeOf(reply)])]
                /\ child' = [i \in DOMAIN child \cup {Len(invocations) + 1} |->
                                IF i \in DOMAIN child THEN child[i] ELSE ChildIdle]
           \/ /\ invocations' = Append(invocations, Invoke(parent.child_arn, child_payload, TRUE))
              /\ parent' = OnDispatchError(parent, DispatchError)
              /\ UNCHANGED child
    /\ UNCHANGED <<env, today, store, sweep, evaluation>>

\* the dispatch capability of the deployment: an accepted asynchronous invoke
\* answers with one of AckCodes
ParentDispatch == ParentDispatchReplying({IntV(code) : code \in AckCodes})

\* a dispatch capability passed in by the caller: any reply
ParentDispatchAny == ParentDispatchReplying(Replies)

\* variant: the response is returned only once every dispatched task has been
\* handled
ParentReturnAfterShards ==
    /\ parent.pc = "dispatching"
    /\ parent.cursor > Len(parent.shard_bounds)
    /\ \A i \in DOMAIN child : child[i].pc \in {"returned", "raised"}
    /\ parent' = ParentReturned(parent,
                    Response(202, Body("", <<"", "">>, parent.request.run_id,
                                       parent.request.total_points,
                                       Len(parent.shard_bounds), parent.dispatches,
                                       "dispatch_submitted")))
    /\ UNCHANGED <<env, today, invocations, child, store, sweep, evaluation>>

\* lines 253-262
ParentReturn ==
    /\ parent.pc = "dispatching"
    /\ parent.cursor > Len(parent.shard_bounds)
    /\ parent' = ParentReturned(parent,
                    Response(202, Body("", <<"", "">>, parent.request.run_id,
                                       parent.request.total_points,
                                       Len(parent.shard_bounds), parent.dispatches,
                                       "dispatch_submitted")))
    /\ UNCHANGED <<env, today, invocations, child, store, sweep, evaluation>>

\* re-invocations so far, over all events
RECURSIVE RetriesOf(_)
RetriesOf(S) ==
    IF S = {} THEN 0
    ELSE LET i == CHOOSE i \in S : TRUE
         IN  (IF child[i].runs > 1 THEN child[i].runs - 1 ELSE 0) + RetriesOf(S \ {i})

Retries == RetriesOf(DOMAIN child)

\* variant: a task is handled only after the task before it has succeeded
CanInvokeAfterSuccess(i) ==
    /\ child[i].pc \in {"idle", "returned", "raised"}
    /\ child[i].runs = 0 \/ Retries < MaxRetries
    /\ i > 1 => child[i - 1].pc = "returned"

CanInvoke(i) ==
    /\ child[i].pc \in {"idle", "returned", "raised"}
    /\ child[i].runs = 0 \/ Retries < MaxRetries

\* the runtime delivers a dispatched event to child_handler
ChildInvoke(i) ==
    /\ i # Direct
    /\ CanInvoke(i)
    /\ child' = [child EXCEPT ![i] =
                    ChildEnter(child[i], Event(invocations[i].Payload, {}, {}, FALSE))]
    /\ UNCHANGED <<env, today, parent, invocations, store, sweep, evaluation>>

\* child_handler is invoked with some other event
ChildInvokeDirect ==
    /\ child[Direct].pc \in {"idle", "returned", "raised"}
    /\ child[Direct].runs < MaxDirectRuns
    /\ \E event \in DirectEvents :
          child' = [child EXCEPT ![Direct] = ChildEnter(child[Direct], event)]
    /\ UNCHANGED <<env, today, parent, invocations, store, sweep, evaluation>>

\* the pending write_outcome call of invocation i succeeds or raises
ChildWrite(i) ==
    /\ child[i].pc \in {"writing_success", "writing_failure"}
    /\ \E ok \in BOOLEAN :
          /\ child' = [child EXCEPT ![i] = ChildAfterWrite(child[i], ok)]
          /\ store' = IF ok THEN Put(store, child[i].key, child[i].record) ELSE store
    /\ UNCHANGED <<env, today, parent, invocations, sweep, evaluation>>

\* midnight UTC passes
Tick ==
    /\ today < MaxDay
    /\ today' = today + 1
    /\ UNCHANGED <<env, parent, invocations, child, store, sweep, evaluation>>

\* the coordinator and the workers it dispatches to
Init ==
    /\ env \in Envs
    /\ today = 0
    /\ parent = ParentIdle
    /\ invocations = <<>>
    /\ child = [i \in {} |-> ChildIdle]
    /\ store = EmptyStore
    /\ sweep = SweepIdle
    /\ evaluation = EvaluationIdle

Next ==
    \/ ParentReceive
    \/ ParentDispatch
    \/ ParentReturn
    \/ \E i \in DOMAIN child : ChildInvoke(i)
    \/ \E i \in DOMAIN child : ChildWrite(i)
    \/ Tick

Spec == Init /\ [][Next]_vars

\* child_handler alone, invoked with the events of DirectEvents
InitChild ==
    /\ env \in ChildEnvs
    /\ today = 0
    /\ parent = ParentIdle
    /\ invocations = <<>>
    /\ child = [i \in {Direct} |-> ChildIdle]
    /\ store = EmptyStore
    /\ sweep = SweepIdle
    /\ evaluation = EvaluationIdle

NextChild ==
    \/ ChildInvokeDirect
    \/ ChildWrite(Direct)
    \/ Tick

SpecChild == InitChild /\ [][NextChild]_vars

\* the evaluator's arithmetic alone, over EvaluatorStates
InitEvaluation ==
    /\ env = [CHILD_LAMBDA_ARN |-> ChildArn, SWEEP_RESULTS_BUCKET |-> "bucket",
              SWEEP_RESULTS_PREFIX |-> AbsentSeq]
    /\ today = 0
    /\ parent = ParentIdle
    /\ invocations = <<>>
    /\ child = [i \in {} |-> ChildIdle]
    /\ store = EmptyStore
    /\ sweep = SweepIdle
    /\ evaluation \in {[EvaluationIdle EXCEPT !.pc = "state", !.state = state] :
                          state \in EvaluatorStates}

NextEvaluation == Evaluate

SpecEvaluation == InitEvaluation /\ [][NextEvaluation]_vars

\* the validator and the partitioner alone, over SweepPayloads
InitSweep ==
    /\ env = [CHILD_LAMBDA_ARN |-> ChildArn, SWEEP_RESULTS_BUCKET |-> "bucket",
              SWEEP_RESULTS_PREFIX |-> AbsentSeq]
    /\ today = 0
    /\ parent = ParentIdle
    /\ invocations = <<>>
    /\ child = [i \in {} |-> ChildIdle]
    /\ store = EmptyStore
    /\ SweepInit
    /\ evaluation = EvaluationIdle

NextSweep ==
    \/ SweepValidate
    \/ SweepPartition
    \/ SweepRevalidate

SpecSweep == InitSweep /\ [][NextSweep]_vars

\* the coordinator alone, with a dispatch capability that answers anything
InitDispatch ==
    /\ env \in Envs
    /\ today = 0
    /\ parent = ParentIdle
    /\ invocations = <<>>
    /\ child = [i \in {} |-> ChildIdle]
    /\ store = EmptyStore
    /\ sweep = SweepIdle
    /\ evaluation = EvaluationIdle

NextDispatch ==
    \/ ParentReceive
    \/ ParentDispatchAny
    \/ ParentReturn

SpecDispatch == InitDispatch /\ [][NextDispatch]_vars

\* a whole run within one UTC day: the coordinator is given a request of
\* RunEvents and every task it dispatches is handled
InitRun ==
    /\ env \in Envs
    /\ today = 0
    /\ parent = ParentIdle
    /\ invocations = <<>>
    /\ child = [i \in {} |-> ChildIdle]
    /\ store = EmptyStore
    /\ sweep = SweepIdle
    /\ evaluation = EvaluationIdle

NextRun ==
    \/ ParentReceiveRun
    \/ ParentDispatch
    \/ ParentReturn
    \/ \E i \in DOMAIN child : ChildInvoke(i)
    \/ \E i \in DOMAIN child : ChildWrite(i)

SpecRun == InitRun /\ [][NextRun]_vars

\* the task dispatched for slot i
TaskOf(i) == invocations[i].Payload

\* the tasks whose event the runtime delivers again: a valid one, an injected
\* failure and one with wrong bounds
RetryTasks ==
    {DirectTask,
     [DirectTask EXCEPT !.failure_injection_shards = <<0>>],
     [DirectTask EXCEPT !.end_index = 3]}

\* the runtime delivers the event of slot i, for the first time or again
ChildDeliver(i) ==
    /\ child[i].pc \in {"idle", "returned", "raised"}
    /\ child[i].runs < MaxDirectRuns
    /\ child' = [child EXCEPT ![i] =
                    ChildEnter(child[i], Event(TaskOf(i), {}, {}, FALSE))]
    /\ UNCHANGED <<env, today, parent, invocations, store, sweep, evaluation>>

\* one dispatched task, handled by child_handler again and again
InitRetry ==
    /\ env \in ChildEnvs
    /\ today = 0
    /\ parent = ParentIdle
    /\ \E t \in RetryTasks : invocations = <<Invoke(ChildArn, t, FALSE)>>
    /\ child = [i \in {1} |-> ChildIdle]
    /\ store = EmptyStore
    /\ sweep = SweepIdle
    /\ evaluation = EvaluationIdle

NextRetry ==
    \/ ChildDeliver(1)
    \/ ChildWrite(1)
    \/ Tick

SpecRetry == InitRetry /\ [][NextRetry]_vars

\* tasks of workers that share a store: run ids and shard ids of which one is
\* a prefix of, or contains a key segment of, another
PairTask(run_id, shard_id) ==
    [DirectTask EXCEPT !.run_id = run_id, !.shard_id = shard_id,
                       !.failure_injection_shards = <<0>>]

PairTasks ==
    {PairTask(<<"s">>, 0), PairTask(<<"s">>, 1), PairTask(<<"s">>, 10),
     PairTask(<<"t">>, 0),
     PairTask(<<"s", "/", "r", "u", "n", "_", "i", "d", "=", "s">>, 1)}

PairEnvs ==
    {Env(ChildArn, "bucket", prefix) :
        prefix \in {AbsentSeq, StrV(<<"/", "s", "/">>)}}

\* two tasks, each handled by child_handler, concurrently, under one
\* configuration
InitPair ==
    /\ env \in PairEnvs
    /\ today = 0
    /\ parent = ParentIdle
    /\ \E t1, t2 \in PairTasks :
          invocations = <<Invoke(ChildArn, t1, FALSE), Invoke(ChildArn, t2, FALSE)>>
    /\ child = [i \in {1, 2} |-> ChildIdle]
    /\ store = EmptyStore
    /\ sweep = SweepIdle
    /\ evaluation = EvaluationIdle

NextPair ==
    \/ \E i \in DOMAIN child : ChildInvoke(i)
    \/ \E i \in DOMAIN child : ChildWrite(i)
    \/ Tick

SpecPair == InitPair /\ [][NextPair]_vars

\* the pending write_outcome call of invocation i succeeds
ChildWriteOk(i) ==
    /\ child[i].pc \in {"writing_success", "writing_failure"}
    /\ child' = [child EXCEPT ![i] = ChildAfterWrite(child[i], TRUE)]
    /\ store' = Put(store, child[i].key, child[i].record)
    /\ UNCHANGED <<env, today, parent, invocations, sweep, evaluation>>

\* the coordinator and its workers, with the store location configured, a
\* store whose writes succeed, and every dispatched task eventually handled
InitFair ==
    /\ env = Env(ChildArn, "bucket", StrV(<<"/", "s", "/">>))
    /\ today = 0
    /\ parent = ParentIdle
    /\ invocations = <<>>
    /\ child = [i \in {} |-> ChildIdle]
    /\ store = EmptyStore
    /\ sweep = SweepIdle
    /\ evaluation = EvaluationIdle

NextFair ==
    \/ ParentReceive
    \/ ParentDispatch
    \/ ParentReturn
    \/ \E i \in DOMAIN child : ChildInvoke(i)
    \/ \E i \in DOMAIN child : ChildWriteOk(i)
    \/ Tick

SpecFair ==
    /\ InitFair
    /\ [][NextFair]_vars
    /\ \A i \in 1..MaxShardParam :
          /\ WF_vars(i \in DOMAIN child /\ ChildInvoke(i))
          /\ WF_vars(i \in DOMAIN child /\ ChildWriteOk(i))

---------------------------------------------------------------------------
(* Properties *)

RECURSIVE SumSizes(_, _)
SumSizes(b, n) ==
    IF n = 0 THEN 0 ELSE (b[n].end_index - b[n].start_index) + SumSizes(b, n - 1)

\* C1 (SpecSweep): whenever compute_shard_bounds returns for a validated
\* request, the bounds carry shard ids 0..n-1 in order, start at 0, end at
\* total_points, are pairwise adjacent, their sizes sum to total_points and
\* every index of [0, total_points) lies in exactly one shard.
C1_PartitionExact ==
    (sweep.pc = "partitioned" /\ sweep.partition.ok) =>
        LET b == sweep.partition.bounds
            n == Len(b)
            t == sweep.validated.request.total_points
        IN  /\ n >= 1
            /\ \A i \in 1..n : b[i].shard_id = i - 1
            /\ b[1].start_index = 0
            /\ b[n].end_index = t
            /\ \A i \in 1..(n - 1) : b[i].end_index = b[i + 1].start_index
            /\ SumSizes(b, n) = t
            /\ \A idx \in 0..(t - 1) :
                  Cardinality({i \in 1..n : b[i].start_index <= idx /\ idx < b[i].end_index}) = 1

\* a partition into at least three shards of unequal sizes
C1_Witness ==
    /\ sweep.pc = "partitioned"
    /\ sweep.partition.ok
    /\ Len(sweep.partition.bounds) >= 3
    /\ sweep.validated.request.total_points % Len(sweep.partition.bounds) # 0

Finished(c) == c.pc \in {"returned", "raised"}

\* the coordinator answered 202 and every dispatched task was handled once,
\* to the end, with no write call failing
AllRanOnce ==
    /\ parent.pc = "returned"
    /\ parent.response.statusCode = 202
    /\ DOMAIN child = 1..Len(invocations)
    /\ \A i \in DOMAIN child :
          /\ child[i].runs = 1
          /\ Finished(child[i])
          /\ \A w \in 1..Len(child[i].writes) : child[i].writes[w].ok

StoreCoversRun ==
    LET k == Len(invocations)
        F == Range(parent.request.failure_injection_shards)
    IN  /\ Cardinality(DOMAIN store) = k
        /\ {store[key].shard_id : key \in DOMAIN store} = 0..(k - 1)
        /\ \A key \in DOMAIN store :
              store[key].status = IF store[key].shard_id \in F THEN "failure" ELSE "success"

\* C2 as stated (Spec): after each of the k dispatched tasks has been handled
\* once with no failing write, the store holds exactly k records, one per shard
\* id 0..k-1, with status failure exactly for the injected shards.
C2_Original == AllRanOnce => StoreCoversRun

\* C2 amended (Spec): the same, for workers whose store location
\* (SWEEP_RESULTS_BUCKET) is configured.
C2_Amended ==
    (AllRanOnce /\ env.SWEEP_RESULTS_BUCKET = "bucket") => StoreCoversRun

\* three shards handled, one of them an injected failure
C2_Witness ==
    /\ AllRanOnce
    /\ env.SWEEP_RESULTS_BUCKET = "bucket"
    /\ Len(invocations) = 3
    /\ \E key \in DOMAIN store : store[key].status = "failure"
    /\ \E key \in DOMAIN store : store[key].status = "success"

\* the errors child_handler raises before it enters its try block
PreTryMessages ==
    {"Missing required field", "Field must be of the expected type",
     "SWEEP_RESULTS_BUCKET must be configured"}

RaisedBeforeTry(c) == c.pc = "raised" /\ c.error.msg[1] \in PreTryMessages

\* C3 as stated (SpecChild): every invocation of child_handler that has
\* ended, however it ended, made exactly one write call.
C3_Original ==
    Finished(child[Direct]) => Len(child[Direct].writes) = 1

\* C3 amended (SpecChild): an invocation rejected by field validation or for a
\* missing store location makes no write call; every other invocation makes
\* exactly one, unless the write of the success record fails, and then it makes
\* a second one, for the failure record.  At most one write completes.
C3_Amended ==
    LET c == child[Direct]
        w == c.writes
    IN  Finished(c) =>
            IF RaisedBeforeTry(c) THEN w = <<>>
            ELSE /\ \/ Len(w) = 1 /\ (w[1].ok \/ w[1].status = "failure")
                    \/ /\ Len(w) = 2
                       /\ w[1].status = "success" /\ ~w[1].ok
                       /\ w[2].status = "failure"
                 /\ Cardinality({i \in 1..Len(w) : w[i].ok}) <= 1

\* an invocation whose success write failed and whose failure write completed
C3_Witness ==
    /\ child[Direct].pc = "raised"
    /\ Len(child[Direct].writes) = 2
    /\ child[Direct].writes[2].ok

\* C4 as stated (SpecChild): whenever child_handler has raised, a write of a
\* failure record was attempted before.
C4_Original ==
    child[Direct].pc = "raised" =>
        \E i \in 1..Len(child[Direct].writes) : child[Direct].writes[i].status = "failure"

\* C4 amended (SpecChild): whenever child_handler raises an error that arose
\* inside shard execution (injected failure, bounds error, a fault of the
\* product or the evaluator, a failed success write), its last write call was
\* for the failure record; field validation errors and the missing store
\* location are raised with no write call at all.
C4_Amended ==
    LET c == child[Direct]
    IN  c.pc = "raised" =>
            IF RaisedBeforeTry(c) THEN c.writes = <<>>
            ELSE /\ c.writes # <<>>
                 /\ c.writes[Len(c.writes)].status = "failure"
                 /\ c.writes[Len(c.writes)].key.status = "failure"
                 /\ c.writes[Len(c.writes)].key.shard_id = c.event.task.shard_id

\* a bounds error raised after its failure record was written
C4_Witness ==
    /\ child[Direct].pc = "raised"
    /\ child[Direct].error.msg[1] = "Invalid shard bounds"
    /\ Len(child[Direct].writes) = 1
    /\ child[Direct].writes[1].status = "failure"
    /\ child[Direct].writes[1].ok

NoDispatchFailure ==
    /\ \A i \in 1..Len(invocations) : ~invocations[i].raised
    /\ parent.error.msg[1] # "boto3 is required for live Lambda dispatch"

\* C6 as stated (Spec): a request with shard_count = k that the coordinator
\* accepted produced exactly k dispatch calls.
C6_Original ==
    (parent.pc = "returned" /\ parent.response.statusCode = 202
        /\ parent.request.shard_count.k = "int") =>
        Len(invocations) = parent.request.shard_count.v

\* C6 amended (Spec): a validated request with shard_count = k, with a worker
\* target configured and a dispatch capability that never fails, produces
\* exactly min(k, total_points) dispatch calls when that number is within
\* max_shards, and none otherwise; the calls are for shards 0, 1, ... in
\* order, each of invocation type "Event".
C6_Amended ==
    (/\ parent.pc \in {"returned", "raised"}
     /\ parent.validation = "ok"
     /\ parent.request.shard_count.k = "int"
     /\ env.CHILD_LAMBDA_ARN = ChildArn
     /\ NoDispatchFailure) =>
        LET n == Min(parent.request.shard_count.v, parent.request.total_points)
        IN  IF n <= parent.request.max_shards
            THEN /\ parent.response.statusCode = 202
                 /\ Len(invocations) = n
                 /\ \A i \in 1..n :
                       /\ invocations[i].InvocationType = "Event"
                       /\ invocations[i].Payload.shard_id = i - 1
            ELSE invocations = <<>>

\* a request asking for more shards than it has points, accepted
C6_Witness ==
    /\ parent.pc = "returned"
    /\ parent.response.statusCode = 202
    /\ parent.request.shard_count.k = "int"
    /\ parent.request.shard_count.v > parent.request.total_points
    /\ Len(invocations) = parent.request.total_points

\* the resolved shard count as the claim words it
ResolvedCount(request) ==
    IF request.shard_count.k = "absent"
    THEN IF request.shard_size.k = "huge" THEN 1
         ELSE (request.total_points + request.shard_size.v - 1) \div request.shard_size.v
    ELSE Min(request.shard_count.v, request.total_points)

\* C7 (Spec): a validated request whose resolved shard count exceeds
\* max_shards is never accepted (no dispatch loop, no 202) and no dispatch call
\* is ever made for it.
C7_MaxShards ==
    (parent.validation = "ok"
        /\ ResolvedCount(parent.request) > parent.request.max_shards) =>
        /\ parent.pc \in {"returned", "raised"}
        /\ parent.response.statusCode # 202
        /\ invocations = <<>>
        /\ DOMAIN child = {}

\* three shards resolved from shard_size against max_shards = 2: rejected
C7_Witness ==
    /\ parent.validation = "ok"
    /\ parent.request.shard_count.k = "absent"
    /\ ResolvedCount(parent.request) > parent.request.max_shards
    /\ parent.pc = "raised"
    /\ parent.error.msg[1] = "Computed shard count exceeds max_shards"

\* C8 (Spec): no ValidationError leaves parent_handler as an uncaught error.
C8_AllCaught ==
    ~(parent.pc = "raised" /\ parent.error.type = "ValidationError")

\* C9 (Spec): a valid request with CHILD_LAMBDA_ARN absent or empty is
\* answered 500 misconfiguration and no dispatch call is ever made.
C9_Misconfiguration ==
    (parent.validation = "ok" /\ env.CHILD_LAMBDA_ARN \in {UNSET, ""}) =>
        /\ parent.pc = "returned"
        /\ parent.response.statusCode = 500
        /\ parent.response.body.error = "misconfiguration"
        /\ invocations = <<>>
        /\ DOMAIN child = {}

\* the empty worker target
C9_Witness ==
    /\ parent.validation = "ok"
    /\ env.CHILD_LAMBDA_ARN = ""
    /\ parent.response.statusCode = 500

\* C10 (Spec): a dispatch call that raises is the last call the handler makes:
\* the calls before it were accepted, one per shard 0..j-1 in order, the
\* failing call is the only one for shard j, and the handler has raised the
\* invocation error and returned no response.
C10_DispatchAbort ==
    \A j \in 1..Len(invocations) :
        invocations[j].raised =>
            /\ j = Len(invocations)
            /\ \A i \in 1..j : invocations[i].Payload.shard_id = i - 1
            /\ \A i \in 1..(j - 1) : ~invocations[i].raised
            /\ parent.pc = "raised"
            /\ parent.error = DispatchError
            /\ parent.response = NoResponse
            /\ DOMAIN child = 1..(j - 1)

\* the call for the second of three shards failed
C10_Witness ==
    /\ Len(invocations) = 2
    /\ invocations[2].raised
    /\ Len(parent.shard_bounds) = 3
    /\ parent.pc = "raised"

---------------------------------------------------------------------------
(* Isolation of the shards of a run *)

Injected(t) == t.shard_id \in Range(t.failure_injection_shards)

\* the record at key is the one the task of its own shard determines
RecordOfOwnShard(key) ==
    LET r == store[key]
        i == key.shard_id + 1
    IN  /\ i \in DOMAIN child
        /\ child[i].runs >= 1
        /\ LET t == TaskOf(i) IN
              /\ key.run_id = t.run_id
              /\ r.run_id = t.run_id
              /\ r.shard_id = t.shard_id
              /\ r.start_index = t.start_index
              /\ r.end_index = t.end_index
              /\ r.status = key.status
              /\ Injected(t) => r.status = "failure" /\ r.error_code = "RuntimeError"
              /\ (~Injected(t) /\ r.status = "failure") => r.error_code = "ClientError"
              /\ r.status = "success" =>
                    /\ r.output_metadata.points_processed = t.end_index - t.start_index
                    /\ r.output_metadata.summary.shard_id = t.shard_id
                    /\ r.output_metadata.result_key = key

\* a step that changes slot i changes no other slot, and touches only keys of
\* the shard of slot i
StepOfSlot(i) ==
    LET t == child'[i].event.task IN
    /\ \A j \in DOMAIN child \ {i} : child'[j] = child[j]
    /\ \A key \in DOMAIN store :
          /\ key \in DOMAIN store'
          /\ (key.shard_id # t.shard_id \/ key.run_id # t.run_id) => store'[key] = store[key]
    /\ \A key \in DOMAIN store' \ DOMAIN store :
          key.shard_id = t.shard_id /\ key.run_id = t.run_id

\* C11 (Spec): under every interleaving of the executions of a run's tasks,
\* each step of one execution leaves every other execution and every other
\* shard's records untouched, a dispatched task that has not run can always
\* run, and every record in the store is the one its own shard's task
\* determines (run alone): a failing shard never prevents, changes or
\* overwrites another shard's execution or record.
C11_Isolation ==
    [][/\ \A i \in DOMAIN child : child'[i] # child[i] => StepOfSlot(i)
       /\ (\A i \in DOMAIN child : child'[i] = child[i]) => store' = store
       /\ \A i \in DOMAIN child' : child'[i].runs = 0 => CanInvoke(i)'
       /\ \A key \in DOMAIN store' : RecordOfOwnShard(key)']_vars

\* of three shards, one failed by injection and raised, another one ran and
\* returned, and both records are in the store
C11_Witness ==
    \E i, j \in DOMAIN child :
        /\ child[i].pc = "raised"
        /\ child[i].error.type = "RuntimeError"
        /\ child[j].pc = "returned"
        /\ Len(child[i].writes) = 1 /\ child[i].writes[1].key \in DOMAIN store
        /\ child[j].result.outcome_key \in DOMAIN store
        /\ Len(invocations) = 3

---------------------------------------------------------------------------
(* Re-execution of a shard task *)

\* C12 (SpecRetry): however often the same task (same run_id and shard_id) is
\* executed again, the store holds at most one outcome record for it: each
\* attempt writes at the key of the previous attempt and overwrites it.
C12_SingleRecord == Cardinality(DOMAIN store) <= 1

---------------------------------------------------------------------------
(* Uniqueness of the outcome keys *)

\* the write calls (made so far by the current attempt) of slot i
WritesOf(i) == {child[i].writes[w] : w \in 1..Len(child[i].writes)}

\* C13 (SpecPair): two write calls whose key strings are equal have the same
\* run_id, status, date and shard_id; hence executions of tasks that differ in
\* run_id or in shard_id never write to the same key.
C13_UniqueKeys ==
    \A i, j \in DOMAIN child :
        \A a \in WritesOf(i), b \in WritesOf(j) :
            /\ OutcomeKeyString(a.key) = OutcomeKeyString(b.key) =>
                  /\ a.key.run_id = b.key.run_id
                  /\ a.key.status = b.key.status
                  /\ a.key.date = b.key.date
                  /\ a.key.shard_id = b.key.shard_id
            /\ (TaskOf(i).run_id # TaskOf(j).run_id
                    \/ TaskOf(i).shard_id # TaskOf(j).shard_id) =>
                  OutcomeKeyString(a.key) # OutcomeKeyString(b.key)

\* both executions wrote a success record on the same day, for shards 1 and
\* 10 of one run
C13_Witness ==
    /\ TaskOf(1).run_id = TaskOf(2).run_id
    /\ TaskOf(1).shard_id = 1 /\ TaskOf(2).shard_id = 10
    /\ \E a \in WritesOf(1), b \in WritesOf(2) :
          /\ a.ok /\ b.ok
          /\ a.key.status = "success" /\ b.key.status = "success"
          /\ a.key.date = b.key.date
          /\ a.key \in DOMAIN store /\ b.key \in DOMAIN store

---------------------------------------------------------------------------
(* Shard-count derivation and shard sizes *)

Partitioned == sweep.pc = "partitioned"

\* ceil(t / s) over the integers: the least n with n * s >= t
Ceil(t, s) == CHOOSE n \in 1..t : n * s >= t /\ (n - 1) * s < t

\* C14 as stated (SpecSweep): for a validated request with shard_size s, the
\* number of shards compute_shard_bounds returns is ceil(total_points / s).
C14_Original ==
    (Partitioned /\ sweep.partition.ok
        /\ sweep.validated.request.shard_size.k = "int") =>
        Len(sweep.partition.bounds) =
            Ceil(sweep.validated.request.total_points,
                 sweep.validated.request.shard_size.v)

\* C14 amended (SpecSweep): for a validated request with shard_size s and no
\* shard_count, compute_shard_bounds returns exactly ceil(total_points / s)
\* shards when that number is within max_shards, and rejects the request
\* otherwise; an s beyond the range of a double resolves to 0 shards and is
\* rejected.
C14_Amended ==
    LET r == sweep.validated.request IN
    (Partitioned /\ r.shard_count.k = "absent") =>
        IF r.shard_size.k = "huge"
        THEN /\ ~sweep.partition.ok
             /\ sweep.partition.error.msg[1] = "No shards to process"
        ELSE IF Ceil(r.total_points, r.shard_size.v) > r.max_shards
        THEN /\ ~sweep.partition.ok
             /\ sweep.partition.error.type = "ValidationError"
        ELSE /\ sweep.partition.ok
             /\ Len(sweep.partition.bounds) = Ceil(r.total_points, r.shard_size.v)

\* shard_size 2 over 3 points: two shards
C14_Witness ==
    LET r == sweep.validated.request IN
    /\ Partitioned /\ sweep.partition.ok
    /\ r.shard_count.k = "absent"
    /\ r.shard_size.k = "int"
    /\ r.shard_size.v = 2
    /\ r.total_points = 3
    /\ Len(sweep.partition.bounds) = 2

SizeOf(shard) == shard.end_index - shard.start_index

\* C15 (SpecSweep): with n the resolved shard count, base_size = total_points
\* div n and remainder = total_points mod n, the returned bounds are n shards
\* of which shard i has base_size + 1 points when i < remainder and base_size
\* otherwise; sizes never increase with the shard id and any two differ by at
\* most 1; 6 points in 4 shards are [0,2), [2,4), [4,5), [5,6).
C15_ShardSizes ==
    (Partitioned /\ sweep.partition.ok) =>
        LET b == sweep.partition.bounds
            r == sweep.validated.request
            t == r.total_points
            n == IF r.shard_count.k = "absent"
                 THEN Ceil(t, r.shard_size.v)
                 ELSE Min(r.shard_count.v, t)
            base_size == t \div n
            remainder == t % n
        IN  /\ Len(b) = n
            /\ \A i \in 1..n :
                  SizeOf(b[i]) = IF b[i].shard_id < remainder
                                 THEN base_size + 1 ELSE base_size
            /\ \A i \in 1..(n - 1) : SizeOf(b[i]) >= SizeOf(b[i + 1])
            /\ \A i, j \in 1..n : SizeOf(b[i]) - SizeOf(b[j]) <= 1
            /\ (t = 6 /\ n = 4) =>
                  b = <<ShardBounds(0, 0, 2), ShardBounds(1, 2, 4),
                        ShardBounds(2, 4, 5), ShardBounds(3, 5, 6)>>

\* 6 points in 4 shards
C15_Witness ==
    /\ Partitioned /\ sweep.partition.ok
    /\ sweep.validated.request.total_points = 6
    /\ Len(sweep.partition.bounds) = 4
    /\ SizeOf(sweep.partition.bounds[2]) = 2
    /\ SizeOf(sweep.partition.bounds[3]) = 1

---------------------------------------------------------------------------
(* Fire-and-forget dispatch *)

\* C16 (Spec): a step of parent_handler never changes the outcome store or a
\* worker's execution, and once the dispatch loop is through, the 202 response
\* can be returned whatever the state of the shard executions is.
C16_FireAndForget ==
    /\ [][(parent' # parent \/ invocations' # invocations) =>
             /\ store' = store
             /\ \A i \in DOMAIN child : child'[i] = child[i]]_vars
    /\ [](parent.pc = "dispatching" => ENABLED (ParentDispatch \/ ParentReturn))

\* the 202 response is returned for three dispatched shards, none of which
\* has started, and the store is empty
C16_Witness ==
    /\ parent.pc = "returned"
    /\ parent.response.statusCode = 202
    /\ Len(invocations) = 3
    /\ \A i \in DOMAIN child : child[i].runs = 0
    /\ store = EmptyStore

---------------------------------------------------------------------------
(* Every dispatched shard gets an outcome record *)

HasRecord(i) ==
    /\ i \in DOMAIN child
    /\ \E key \in DOMAIN store :
        /\ key.run_id = TaskOf(i).run_id
        /\ key.shard_id = TaskOf(i).shard_id
        /\ store[key].shard_id = TaskOf(i).shard_id
        /\ store[key].status \in {"success", "failure"}

\* C17 (SpecFair): with the store location configured, writes that succeed and
\* every dispatched task eventually handled, each task the coordinator
\* dispatched eventually has an outcome record in the store: again and again
\* all tasks dispatched so far are recorded (a dispatched task stays dispatched).
C17_EventuallyRecorded ==
    []<>(\A i \in DOMAIN child : HasRecord(i))

\* three shards dispatched, the one after the injected failure recorded too
C17_Witness ==
    /\ Len(invocations) = 3
    /\ DOMAIN child = 1..3
    /\ \A i \in 1..3 : HasRecord(i)
    /\ \E key \in DOMAIN store : store[key].status = "failure" /\ key.shard_id = 1
    /\ \E key \in DOMAIN store : store[key].status = "success" /\ key.shard_id = 2

---------------------------------------------------------------------------
(* Reproducibility of the evaluator *)

SucceededSummary(i) == child[i].record.output_metadata.summary

---------------------------------------------------------------------------
(* The error child_handler propagates *)

\* C19 (SpecChild): an invocation that failed during shard execution ends by
\* raising the original error, the one its failure record carries as
\* error_code and error_message, also when the write of that record fails.
C19_OriginalError ==
    LET c == child[Direct] IN
    (c.pc = "raised" /\ c.exc # NoError) =>
        /\ c.error = c.exc
        /\ c.record.error_code = c.error.type
        /\ c.record.error_message = c.error.msg

---------------------------------------------------------------------------
(* The shard-bounds error *)

\* not (0 <= start_index < end_index <= len(product))
BadBounds(t) ==
    ~(/\ 0 <= t.start_index
      /\ t.start_index < t.end_index
      /\ t.end_index <= Len(DimensionProduct(t.dimensions)))

\* the invocation got past the field checks and the store location check
EnteredTry(c) ==
    /\ c.runs >= 1
    /\ c.event.missing = {} /\ c.event.mistyped = {} /\ ~c.event.uniterable
    /\ ~RaisedBeforeTry(c)

\* C20 (SpecChild): every task whose indices violate
\* 0 <= start_index < end_index <= len(product), injected or not, fails with
\* the shard-bounds error: no success record is built or written, and the
\* failure record carries the bounds error.
C20_BoundsError ==
    LET c == child[Direct] IN
    (EnteredTry(c) /\ BadBounds(c.event.task)) =>
        /\ c.pc \in {"writing_failure", "raised"}
        /\ c.exc = ValidationError(<<"Invalid shard bounds", "">>)
        /\ c.record.status = "failure"
        /\ c.record.error_code = "ValidationError"
        /\ c.record.error_message = <<"Invalid shard bounds", "">>
        /\ \A w \in 1..Len(c.writes) : c.writes[w].status = "failure"

---------------------------------------------------------------------------
(* The injected failure *)

InjectedError == RuntimeError(<<"Injected shard failure for verification", "">>)

\* C21 as stated (SpecChild): an invocation whose task lists its own shard_id
\* in failure_injection_shards ends with no evaluator call, no write call for
\* a success record, and exactly one status=failure record written for that
\* shard.
C21_Original ==
    LET c == child[Direct]
        t == c.event.task
    IN  (c.runs >= 1 /\ Finished(c) /\ t.shard_id \in Range(t.failure_injection_shards)) =>
            /\ c.calls = <<>>
            /\ Len(c.writes) = 1
            /\ c.writes[1].status = "failure"
            /\ c.writes[1].ok
            /\ c.writes[1].key \in DOMAIN store
            /\ store[c.writes[1].key].status = "failure"
            /\ store[c.writes[1].key].shard_id = t.shard_id

\* C21 amended (SpecChild): an invocation that got past the field checks and
\* the store location check, and whose task lists its own shard_id in
\* failure_injection_shards, fails with the injected error before
\* _run_shard: no evaluator call is made, no write call is for a success
\* record, and exactly one write call is made, for the status=failure record
\* of that shard carrying the injected error; that record is in the store
\* when the write call succeeds, and the invocation ends by raising.
C21_Amended ==
    LET c == child[Direct]
        t == c.event.task
    IN  (EnteredTry(c) /\ t.shard_id \in Range(t.failure_injection_shards)) =>
            /\ c.calls = <<>>
            /\ c.pc \in {"writing_failure", "raised"}
            /\ c.exc = InjectedError
            /\ c.record.status = "failure"
            /\ c.record.shard_id = t.shard_id
            /\ c.record.error_code = "RuntimeError"
            /\ c.record.error_message = InjectedError.msg
            /\ c.key.status = "failure" /\ c.key.shard_id = t.shard_id
            /\ \A w \in 1..Len(c.writes) : c.writes[w].status = "failure"
            /\ Len(c.writes) = IF c.pc = "raised" THEN 1 ELSE 0
            /\ (c.pc = "raised" /\ c.writes[1].ok) =>
                  /\ c.writes[1].key = c.key
                  /\ c.key \in DOMAIN store
                  /\ store[c.key] = c.record

\* the injected failure was raised after its failure record was stored
C21_Witness ==
    LET c == child[Direct]
        t == c.event.task
    IN  /\ EnteredTry(c)
        /\ t.shard_id \in Range(t.failure_injection_shards)
        /\ c.pc = "raised"
        /\ c.error = InjectedError
        /\ c.calls = <<>>
        /\ Len(c.writes) = 1 /\ c.writes[1].ok
        /\ store[c.key].status = "failure"

---------------------------------------------------------------------------
(* Failures of the partitioner on validated requests *)

\* C22 (SpecSweep): for a request validate_sweep_request returned,
\* compute_shard_bounds either returns or raises the error of a resolved shard
\* count above max_shards; it raises neither 'No shards to process' nor the
\* coverage or adjacency RuntimeError.
C22_OnlyMaxShards ==
    (Partitioned /\ ~sweep.partition.ok) =>
        /\ sweep.partition.error = ValidationError(<<"Computed shard count exceeds max_shards", "">>)
        /\ ResolveShardCount(sweep.validated.request) > sweep.validated.request.max_shards

---------------------------------------------------------------------------
(* The limits the validator enforces *)

Validated == sweep.pc \in {"validated", "partitioned"}

\* the product of the lengths of the value lists of dims[1..n]
RECURSIVE LengthProduct(_, _)
LengthProduct(dims, n) ==
    IF n = 0 THEN 1 ELSE Len(dims[n].values.v) * LengthProduct(dims, n - 1)

PositiveInt(f) == f.k = "huge" \/ (f.k = "int" /\ f.v >= 1)

\* a request object with a non-empty dimension mapping of lists that breaks
\* one of the limits
BreaksLimit(p) ==
    /\ p.kind = "object"
    /\ p.dimensions.k = "dict"
    /\ p.dimensions.v # <<>>
    /\ \A i \in 1..Len(p.dimensions.v) : p.dimensions.v[i].values.k = "list"
    /\ \/ \E i \in 1..Len(p.dimensions.v) :
             \/ Len(p.dimensions.v[i].values.v) < 1
             \/ Len(p.dimensions.v[i].values.v) > 10000
       \/ LengthProduct(p.dimensions.v, Len(p.dimensions.v)) > 200000
       \/ p.shard_count.k = "absent" /\ p.shard_size.k = "absent"
       \/ p.shard_count.k # "absent" /\ ~PositiveInt(p.shard_count)
       \/ p.shard_size.k # "absent" /\ ~PositiveInt(p.shard_size)
       \/ p.max_shards.k # "absent" /\ ~PositiveInt(p.max_shards)

\* C23 (SpecSweep): a request validate_sweep_request returns has total_points
\* equal to the product of the lengths of its value lists, between 1 and
\* 200000, between 1 and 10000 values in every dimension, shard_count or
\* shard_size present and each present one a positive integer, and a positive
\* max_shards; a request that breaks one of these limits is rejected with a
\* ValidationError.
C23_Limits ==
    Validated =>
        LET p == sweep.payload
            v == sweep.validated
            r == v.request
        IN  /\ v.ok =>
                  /\ r.total_points = LengthProduct(p.dimensions.v, Len(p.dimensions.v))
                  /\ r.total_points >= 1 /\ r.total_points <= 200000
                  /\ Len(r.dimensions) >= 1
                  /\ \A i \in 1..Len(r.dimensions) :
                        /\ Len(r.dimensions[i].values) >= 1
                        /\ Len(r.dimensions[i].values) <= 10000
                  /\ r.shard_count.k # "absent" \/ r.shard_size.k # "absent"
                  /\ r.shard_count.k # "absent" => PositiveInt(r.shard_count)
                  /\ r.shard_size.k # "absent" => PositiveInt(r.shard_size)
                  /\ r.shard_count = p.shard_count /\ r.shard_size = p.shard_size
                  /\ r.max_shards >= 1
            /\ BreaksLimit(p) => ~v.ok /\ v.error.type = "ValidationError"

\* a parameter space of exactly 200000 points, accepted
C23_Witness ==
    /\ Validated
    /\ sweep.validated.ok
    /\ Len(sweep.validated.request.dimensions) = 2
    /\ sweep.validated.request.total_points = 200000

---------------------------------------------------------------------------
(* Normalization *)

\* C24 (SpecSweep): in what validate_sweep_request returns, the dimensions
\* are those of the input in ascending order of their names, and
\* failure_injection_shards is strictly increasing with the same set of
\* elements as the input list; validating what it returned returns an equal
\* request.
C24_Normalized ==
    /\ (sweep.pc # "input" /\ sweep.pc # "idle" /\ sweep.validated.ok) =>
          LET p == sweep.payload
              r == sweep.validated.request
              d == r.dimensions
              f == r.failure_injection_shards
          IN  /\ \A i, j \in 1..Len(d) : i < j => StrLess(d[i].name, d[j].name)
              /\ {<<d[i].name, d[i].values>> : i \in 1..Len(d)} =
                    {<<p.dimensions.v[i].name, p.dimensions.v[i].values.v>> :
                        i \in 1..Len(p.dimensions.v)}
              /\ \A i, j \in 1..Len(f) : i < j => f[i] < f[j]
              /\ Range(f) = IF p.failure_injection_shards.k = "absent"
                            THEN {} ELSE Range(p.failure_injection_shards.v)
    /\ sweep.pc = "revalidated" => sweep.revalidated = sweep.validated

\* dimensions given as b, a and failure shards given as 2, 0, 2: returned as
\* a, b and 0, 2, and returned so again
C24_Witness ==
    /\ sweep.pc = "revalidated"
    /\ sweep.revalidated.ok
    /\ sweep.payload.dimensions.v[1].name = NameB
    /\ sweep.payload.failure_injection_shards.v = <<2, 0, 2>>
    /\ sweep.revalidated.request.dimensions[1].name = NameA
    /\ sweep.revalidated.request.failure_injection_shards = <<0, 2>>

---------------------------------------------------------------------------
(* The dispatch manifest *)

Accepted202 == parent.pc = "returned" /\ parent.response.statusCode = 202

\* C25 (SpecDispatch): in a 202 response, shards_dispatched is the number of
\* dispatch calls made and the length of the manifest, which is also the
\* number of shards of the partition; entry i of the manifest is for shard
\* i - 1, the shard of the i-th call, and carries the StatusCode that call
\* answered (0 when it answered none).
C25_Manifest ==
    Accepted202 =>
        LET body == parent.response.body
            n == body.shards_dispatched
        IN  /\ n = Len(invocations)
            /\ n = Len(body.dispatches)
            /\ n = Len(parent.shard_bounds)
            /\ n >= 1
            /\ \A i \in 1..n :
                  /\ ~invocations[i].raised
                  /\ invocations[i].Payload.shard_id = i - 1
                  /\ body.dispatches[i].shard_id = i - 1
                  /\ body.dispatches[i].status_code =
                        IF invocations[i].reply.k = "absent" THEN 0
                        ELSE invocations[i].reply.v

\* three shards whose calls answered 202, 200 and no StatusCode
C25_Witness ==
    /\ Accepted202
    /\ parent.response.body.shards_dispatched = 3
    /\ parent.response.body.dispatches =
          <<[shard_id |-> 0, status_code |-> 202],
            [shard_id |-> 1, status_code |-> 200],
            [shard_id |-> 2, status_code |-> 0]>>

---------------------------------------------------------------------------
(* What a shard execution evaluates *)

\* the number of points that differ only in dimensions j+1..n
RECURSIVE Weight(_, _)
Weight(dims, j) ==
    IF j >= Len(dims) THEN 1 ELSE Len(dims[j + 1].values) * Weight(dims, j + 1)

\* the point of global index idx: the dimensions in their order, the last one
\* varying fastest
PointAt(dims, idx) ==
    [j \in 1..Len(dims) |->
        [name |-> dims[j].name,
         value |-> dims[j].values[((idx \div Weight(dims, j)) % Len(dims[j].values)) + 1]]]

\* the sum of one metric over the evaluator calls calls[1..n]
RECURSIVE SumMetric(_, _, _)
SumMetric(calls, n, metric) ==
    IF n = 0 THEN 0
    ELSE DeterministicResult(calls[n].run_id, calls[n].shard_id,
                             calls[n].point, calls[n].seed)[metric]
            + SumMetric(calls, n - 1, metric)

Succeeded(c) == c.pc \in {"writing_success", "returned"}

\* the execution in slot i evaluated the points of its slice, each once and
\* in order, and its record carries their number and the sums of their metrics
ShardEvaluated(i) ==
    LET c == child[i]
        t == c.event.task
        size == t.end_index - t.start_index
        m == c.record.output_metadata
    IN  /\ Len(c.calls) = size
        /\ \A k \in 1..size :
              c.calls[k] = [run_id |-> t.run_id, shard_id |-> t.shard_id,
                            point |-> PointAt(t.dimensions, t.start_index + k - 1),
                            seed |-> t.seed]
        /\ c.record.status = "success"
        /\ m.points_processed = size
        /\ m.summary.metrics.points_processed = size
        /\ \A metric \in {"completed_rides", "abandoned_rides", "platform_revenue_cents"} :
              m.summary.metrics[metric] = SumMetric(c.calls, size, metric)

RECURSIVE SumProcessed(_)
SumProcessed(keys) ==
    IF keys = {} THEN 0
    ELSE LET key == CHOOSE key \in keys : TRUE
         IN  store[key].output_metadata.points_processed + SumProcessed(keys \ {key})

\* every point of the parameter space was evaluated once, by one shard, and
\* the stored records account for all of them
RunCovered ==
    LET r == parent.request IN
    /\ \A idx \in 0..(r.total_points - 1) :
          Cardinality({<<i, k>> \in (DOMAIN child) \X (1..r.total_points) :
                          /\ k <= Len(child[i].calls)
                          /\ child[i].calls[k].point = PointAt(r.dimensions, idx)}) = 1
    /\ SumProcessed(DOMAIN store) = r.total_points

\* C26 as stated (SpecRun): an execution that succeeded evaluated exactly the
\* points product[start_index:end_index], each once, and recorded their number
\* and the sum of each metric over them; and for a request without failure
\* injection, once every dispatched task has been executed, every point of the
\* product has been evaluated exactly once and the points_processed of the
\* records sum to total_points.
C26_Original ==
    /\ \A i \in DOMAIN child : Succeeded(child[i]) => ShardEvaluated(i)
    /\ (AllRanOnce /\ parent.request.failure_injection_shards = <<>>) => RunCovered

\* C26 amended (SpecRun): the same, the second part for workers whose store
\* location (SWEEP_RESULTS_BUCKET) is configured and whose write calls succeed.
C26_Amended ==
    /\ \A i \in DOMAIN child : Succeeded(child[i]) => ShardEvaluated(i)
    /\ (/\ AllRanOnce
        /\ parent.request.failure_injection_shards = <<>>
        /\ env.SWEEP_RESULTS_BUCKET = "bucket") => RunCovered

\* 6 points in 4 shards, no injection, every task executed and recorded
C26_Witness ==
    /\ AllRanOnce
    /\ parent.request.failure_injection_shards = <<>>
    /\ env.SWEEP_RESULTS_BUCKET = "bucket"
    /\ parent.request.total_points = 6
    /\ Len(invocations) = 4
    /\ \A i \in 1..4 : child[i].pc = "returned" /\ ShardEvaluated(i)
    /\ Len(child[1].calls) = 2 /\ Len(child[4].calls) = 1

---------------------------------------------------------------------------
(* The tasks the coordinator builds *)

BoundsErrorMessage == "Invalid shard bounds"

\* the product of the lengths of the value lists of the task's dimensions 1..n
RECURSIVE LengthProductOfTask(_, _)
LengthProductOfTask(dims, n) ==
    IF n = 0 THEN 1 ELSE Len(dims[n].values) * LengthProductOfTask(dims, n - 1)

\* C27 (Spec): every task parent_handler dispatched has
\* 0 <= start_index < end_index <= total_points, with total_points the size
\* of the Cartesian product of its dimensions, and there are never more tasks
\* than points; no execution of such a task raises the shard-bounds error;
\* and an execution of a task not listed in failure_injection_shards whose
\* write call succeeded has returned and left a success record for its shard.
C27_DispatchedTasks ==
    /\ \A i \in 1..Len(invocations) :
          LET t == TaskOf(i) IN
          /\ 0 <= t.start_index
          /\ t.start_index < t.end_index
          /\ t.end_index <= t.total_points
          /\ t.total_points = LengthProductOfTask(t.dimensions, Len(t.dimensions))
          /\ t.total_points = Len(DimensionProduct(t.dimensions))
          /\ Len(invocations) <= t.total_points
    /\ \A i \in DOMAIN child :
          LET c == child[i]
              t == TaskOf(i)
          IN  /\ c.exc.msg[1] # BoundsErrorMessage
              /\ c.error.msg[1] # BoundsErrorMessage
              /\ c.record.error_message[1] # BoundsErrorMessage
              /\ (/\ t.shard_id \notin Range(t.failure_injection_shards)
                  /\ c.writes # <<>>
                  /\ c.writes[1].ok) =>
                    /\ c.pc = "returned"
                    /\ c.result.status = "ok"
                    /\ Len(c.writes) = 1
                    /\ c.writes[1].status = "success"
                    /\ c.writes[1].key \in DOMAIN store
                    /\ store[c.writes[1].key].status = "success"
                    /\ store[c.writes[1].key].shard_id = t.shard_id

\* a request for more shards than it has points: three tasks of one point
\* each, the ones not injected recorded as successes
C27_Witness ==
    /\ parent.request.shard_count.k = "int"
    /\ parent.request.shard_count.v > parent.request.total_points
    /\ Len(invocations) = 3
    /\ DOMAIN child = 1..3
    /\ \A i \in {1, 3} :
          /\ child[i].pc = "returned"
          /\ store[child[i].result.outcome_key].status = "success"

---------------------------------------------------------------------------
(* The acknowledgement of child_handler *)

\* C28 (SpecChild): an invocation that returned made one write call, for the
\* success record, which completed, and it acknowledges the key of that
\* record, which is in the store; an invocation whose success write failed
\* has no acknowledgement, goes on to one write call for the status=failure
\* record of the same shard, and after that call has raised.
C28_AckAfterWrite ==
    LET c == child[Direct]
        t == c.event.task
    IN  /\ c.pc = "returned" =>
              /\ c.result = [status |-> "ok", shard_id |-> t.shard_id, outcome_key |-> c.key]
              /\ Len(c.writes) = 1
              /\ c.writes[1] = [key |-> c.key, status |-> "success", ok |-> TRUE]
              /\ c.key.status = "success"
              /\ c.key \in DOMAIN store
              /\ store[c.key].status = "success"
              /\ store[c.key].shard_id = t.shard_id
        /\ c.pc # "returned" => c.result = NoResult
        /\ (c.writes # <<>> /\ c.writes[1].status = "success" /\ ~c.writes[1].ok) =>
              /\ c.pc \in {"writing_failure", "raised"}
              /\ c.exc = StoreWriteError
              /\ c.key.status = "failure"
              /\ c.key.shard_id = t.shard_id /\ c.key.run_id = t.run_id
              /\ c.record.status = "failure"
              /\ c.record.shard_id = t.shard_id
              /\ c.pc = "writing_failure" => Len(c.writes) = 1
              /\ c.pc = "raised" =>
                    /\ Len(c.writes) = 2
                    /\ c.writes[2].key = c.key
                    /\ c.writes[2].status = "failure"
                    /\ c.error.type # "none"

\* the success write failed, the failure record was written, the handler raised
C28_Witness ==
    LET c == child[Direct] IN
    /\ c.pc = "raised"
    /\ Len(c.writes) = 2
    /\ c.writes[1].status = "success" /\ ~c.writes[1].ok
    /\ c.writes[2].status = "failure" /\ c.writes[2].ok
    /\ store[c.key].status = "failure"
    /\ c.result = NoResult

---------------------------------------------------------------------------
(* Keys and the records stored under them *)

\* the position of the last "/" of text (0 when there is none)
LastSlash(text) ==
    LET at == {i \in 1..Len(text) : text[i] = "/"}
    IN  IF at = {} THEN 0 ELSE CHOOSE i \in at : \A j \in at : j <= i

\* the number a string of decimal digits writes
RECURSIVE StrToNat(_)
StrToNat(digits) ==
    IF digits = <<>> THEN 0
    ELSE 10 * StrToNat(SubSeq(digits, 1, Len(digits) - 1))
            + (CHOOSE n \in 0..9 : Digit(n) = digits[Len(digits)])

\* the segments of a key string, read from its end: the last three path
\* elements are shard_id=N.json, date=D and status=S, and what is left after
\* {prefix}/run_id= is the run id
KeySegments(text, prefix) ==
    LET p3 == LastSlash(text)
        file == SubSeq(text, p3 + 1, Len(text))
        rest2 == SubSeq(text, 1, p3 - 1)
        p2 == LastSlash(rest2)
        rest1 == SubSeq(rest2, 1, p2 - 1)
        p1 == LastSlash(rest1)
        head == SubSeq(rest1, 1, p1 - 1)
    IN  [run_id |-> SubSeq(head, Len(prefix) + 9, Len(head)),
         run_id_label |-> SubSeq(head, 1, Len(prefix) + 8),
         status |-> SubSeq(rest1, p1 + 8, Len(rest1)),
         date |-> SubSeq(rest2, p2 + 6, Len(rest2)),
         shard_id |-> StrToNat(SubSeq(file, 10, Len(file) - 5))]

\* C29 (SpecPair): every record in the store agrees with the key string it is
\* stored under: the run_id, status and shard_id segments of the key are the
\* record's run_id, status and shard_id; and the record has output_metadata
\* exactly when its status is success, and error_code and error_message
\* exactly when its status is failure.
C29_KeyAgreesWithRecord ==
    \A key \in DOMAIN store :
        LET r == store[key]
            seg == KeySegments(OutcomeKeyString(key), key.prefix)
        IN  /\ seg.run_id_label = key.prefix \o <<"/", "r", "u", "n", "_", "i", "d", "=">>
            /\ seg.run_id = r.run_id
            /\ seg.status = StatusString(r.status)
            /\ seg.shard_id = r.shard_id
            /\ r.status \in {"success", "failure"}
            /\ r.has_output_metadata <=> r.status = "success"
            /\ r.has_error <=> r.status = "failure"
            /\ r.status = "success" =>
                  /\ r.output_metadata.result_key = key
                  /\ r.error_code = ""
            /\ r.status = "failure" =>
                  /\ r.output_metadata = NoMetadata
                  /\ r.error_code # ""

\* a failure record and a success record of the run whose id contains a key
\* segment, stored side by side
C29_Witness ==
    \E k1, k2 \in DOMAIN store :
        /\ store[k1].status = "failure"
        /\ store[k2].status = "success"
        /\ store[k2].shard_id = 1
        /\ Len(store[k2].run_id) > 1

---------------------------------------------------------------------------
(* The evaluator's arithmetic *)

\* 256^k mod m
RECURSIVE PowMod256(_, _)
PowMod256(k, m) == IF k = 0 THEN 1 % m ELSE (PowMod256(k - 1, m) * 256) % m

\* state mod m from the place values of the bytes of state
RECURSIVE WeightedSum(_, _, _)
WeightedSum(bytes, n, m) ==
    IF n = 0 THEN 0
    ELSE WeightedSum(bytes, n - 1, m) + bytes[n] * PowMod256(Len(bytes) - n, m)

StateMod(bytes, m) == WeightedSum(bytes, Len(bytes), m) % m

\* a state below 2^31 is also written as an integer
IsSmall(bytes) == /\ \A i \in 1..4 : bytes[i] = 0
                  /\ bytes[5] < 128

SmallValue(bytes) ==
    ((bytes[5] * 256 + bytes[6]) * 256 + bytes[7]) * 256 + bytes[8]

\* C30 (SpecEvaluation): for every 64-bit state the evaluator returns
\* completed_rides = (state mod 200) + 10, abandoned_rides = (state div 10)
\* mod 40 and platform_revenue_cents = completed_rides * (500 + (state mod
\* 1200)); so 10 <= completed_rides <= 209, 0 <= abandoned_rides <= 39 and
\* 5000 <= platform_revenue_cents <= 209 * 1699.
C30_Metrics ==
    evaluation.pc = "returned" =>
        LET state == evaluation.state
            m == evaluation.metrics
        IN  /\ m.completed_rides = StateMod(state, 200) + 10
            /\ m.abandoned_rides = StateMod(state, 400) \div 10
            /\ m.platform_revenue_cents =
                   m.completed_rides * (500 + StateMod(state, 1200))
            /\ IsSmall(state) =>
                  LET value == SmallValue(state)
                  IN  /\ m.completed_rides = (value % 200) + 10
                      /\ m.abandoned_rides = (value \div 10) % 40
                      /\ m.platform_revenue_cents =
                             m.completed_rides * (500 + (value % 1200))
            /\ state = <<0, 0, 0, 0, 0, 0, 4, 175>> =>
                  m = [completed_rides |-> 209, abandoned_rides |-> 39,
                       platform_revenue_cents |-> 209 * 1699]
            /\ 10 <= m.completed_rides /\ m.completed_rides <= 209
            /\ 0 <= m.abandoned_rides /\ m.abandoned_rides <= 39
            /\ 5000 <= m.platform_revenue_cents
            /\ m.platform_revenue_cents <= 209 * 1699

\* the largest state, 2^64 - 1, has been evaluated
C30_Witness ==
    /\ evaluation.pc = "returned"
    /\ evaluation.state = <<255, 255, 255, 255, 255, 255, 255, 255>>
    /\ evaluation.metrics = [completed_rides |-> 25, abandoned_rides |-> 1,
                             platform_revenue_cents |-> 12875]

====
